---- MODULE Spec2Model ----
(***************************************************************************)
(* Energy-storage arbitrage simulator: the storage state machine           *)
(* (models/energy_storage.py) and the threshold-lookahead trading engine   *)
(* with its trade summarizer (strategies/threshold_lookahead.py).          *)
(*                                                                         *)
(* Arithmetic.  The program computes with Python floats; the model         *)
(* computes the same expressions exactly, on integer grids:                *)
(*   - an energy (capacity, energy_level, amount, total_charged_energy,    *)
(*     total_gross_energy, amount_gross) counts 1/EnergyScale MWh;         *)
(*   - charge_rate counts 1/RateScale per hour, efficiency counts 1/One,   *)
(*     so One is the model's 1.0 and One - efficiency is 1 - efficiency;   *)
(*   - a usable or lost energy (amount * efficiency) counts                *)
(*     1/(EnergyScale*One) MWh;                                            *)
(*   - a price or fee is a whole number of EUR/MWh; every amount of money  *)
(*     (cost, revenue, cash, the totals) counts 1/(EnergyScale*One) EUR;   *)
(*   - a cycle count counts 1/CycleScale cycles;                           *)
(*   - an engine target (charge_target, discharge_target) counts           *)
(*     1/(EnergyScale*TargetScale) MWh.                                    *)
(* Comparisons against fractions (0.9 * capacity, price * 1.2, a           *)
(* percentile) are cross-multiplied.  A local that may be None, a price    *)
(* that may be float("inf") and a local that may be unbound are sequences  *)
(* of at most one number: <<>> is None, inf or unbound, <<v>> is v.        *)
(***************************************************************************)
EXTENDS Integers, Sequences, FiniteSets, TLC

VARIABLES
    storage,        \* the EnergyStorage object
    call,           \* the latest call into the storage: operation, arguments, return value
    used,           \* number of caller steps (storage spec) / price points (engine spec) so far
    pc,             \* "caller": outside threshold_lookahead; "loop": inside its while loop
    runs,           \* number of threshold_lookahead calls made so far
    price_array,    \* threshold_lookahead: price_array
    window_size,    \* threshold_lookahead: window_size
    idx,            \* threshold_lookahead: idx
    energy_history, \* threshold_lookahead: energy_history
    charge_target,  \* threshold_lookahead: charge_target
    discharge_target,        \* threshold_lookahead: discharge_target
    current_operation_price, \* threshold_lookahead: current_operation_price
    last_discharge_price,    \* threshold_lookahead: last_discharge_price
    last_charge_price,       \* threshold_lookahead: last_charge_price
    current_price,  \* threshold_lookahead: current_price (unbound before its first assignment)
    trades,         \* create_trading_summary: trades
    current_trade,  \* create_trading_summary: current_trade
    entry_index     \* create_trading_summary: i, the position of the for loop

engine_vars == <<pc, runs, price_array, window_size, idx, energy_history, charge_target, discharge_target, current_operation_price, last_discharge_price, last_charge_price, current_price>>

summary_vars == <<trades, current_trade, entry_index>>

vars == <<storage, call, used, pc, runs, price_array, window_size, idx, energy_history, charge_target, discharge_target, current_operation_price, last_discharge_price, last_charge_price, current_price, trades, current_trade, entry_index>>

----------------------------------------------------------------------------
(* Scales of the integer grids *)

EnergyScale == 8

RateScale == 2

One == 100

CycleScale == 16

TargetScale == 10

(* A quarter of an hour, in hours, as a fraction: 0.25 = 1 / QuarterDen *)
QuarterDen == 4

----------------------------------------------------------------------------
(* Bounds *)

\* storage specification: number of calls the caller makes
MaxCalls == 5

\* engine specification: number of price points fed to the engine in total
MaxT == 5

\* engine specification: number of threshold_lookahead calls
MaxRuns == 2

\* prices in EUR/MWh (negative prices occur on the market)
Prices == {-10, 5, 42, 50}

\* time indices the caller of the storage passes
TimeIndices == {0, 1}

\* constructor arguments of a storage that can move energy: 1 MWh at 1.5C, 85 %, no fee;
\* 1 MWh at 4C, 100 %, 2 EUR/MWh; 2 MWh at 2C, 85 %, 2 EUR/MWh
Configs ==
    { [capacity_mwh |-> 8,  charge_rate |-> 3, efficiency |-> 85,  fee_per_mwh |-> 0],
      [capacity_mwh |-> 8,  charge_rate |-> 8, efficiency |-> 100, fee_per_mwh |-> 2],
      [capacity_mwh |-> 16, charge_rate |-> 4, efficiency |-> 85,  fee_per_mwh |-> 2] }

\* constructor arguments nothing rejects: a C-rate of 0, so max_power = 0
DegenerateConfigs ==
    { [capacity_mwh |-> 8,  charge_rate |-> 0, efficiency |-> 85,  fee_per_mwh |-> 0] }

----------------------------------------------------------------------------
(* Python values *)

None == <<>>

Inf == <<>>

Unbound == <<>>

Num(v) == <<v>>

Val(x) == x[1]

----------------------------------------------------------------------------
(* models/energy_storage.py *)

Min(a, b) == IF a <= b THEN a ELSE b

Max(a, b) == IF a >= b THEN a ELSE b

\* EnergyStorage.__init__
EnergyStorage(capacity_mwh, charge_rate, efficiency, fee_per_mwh) ==
    [ capacity |-> capacity_mwh,
      charge_rate |-> charge_rate,
      max_power |-> capacity_mwh * charge_rate,
      efficiency |-> efficiency,
      fee_per_mwh |-> fee_per_mwh,
      energy_level |-> 0,
      cash |-> 0,
      transactions |-> <<>>,
      is_charging |-> FALSE,
      is_discharging |-> FALSE,
      charging_price |-> 0,
      discharging_price |-> 0,
      charging_start_index |-> -1,
      current_interval |-> 0,
      total_charged_energy |-> 0,
      total_discharged_energy |-> 0,
      total_gross_energy |-> 0,
      total_charge_cost |-> 0,
      total_discharge_revenue |-> 0,
      gross_energy_revenue |-> 0,
      efficiency_losses |-> 0,
      energy_losses |-> 0,
      total_cycles |-> 0,
      daily_cycles |-> 0,
      operation_time_days |-> 0 ]

\* max_power * 0.25: max_power counts 1/(EnergyScale*RateScale) MW
MaxStep(s) == s.max_power \div (RateScale * QuarterDen)

\* a charge step that stays in charging mode when nothing can be moved
_charge_step_stuck(s, price, time_index) ==
    LET max_charge == MaxStep(s)
        available_capacity == s.capacity - s.energy_level
        amount == Min(max_charge, available_capacity)
        energy_cost == amount * price * One
        transaction_fee == amount * s.fee_per_mwh * One
        cost == energy_cost + transaction_fee
        transaction == [ type |-> "charge",
                         amount |-> amount,
                         price |-> price,
                         energy_cost |-> energy_cost,
                         transaction_fee |-> transaction_fee,
                         cost |-> cost,
                         energy_level |-> s.energy_level + amount,
                         index |-> time_index,
                         interval |-> s.current_interval ]
    IN  IF amount <= 0
        THEN [s |-> s, ret |-> FALSE]
        ELSE [s |-> [s EXCEPT !.energy_level = @ + amount,
                              !.cash = @ - cost,
                              !.total_charged_energy = @ + amount,
                              !.total_charge_cost = @ + cost,
                              !.transactions = Append(@, transaction)],
              ret |-> TRUE]

\* a charge step that does not clip the amount to the room left
_charge_step_unclipped(s, price, time_index) ==
    LET max_charge == MaxStep(s)
        available_capacity == s.capacity - s.energy_level
        amount == max_charge
        energy_cost == amount * price * One
        transaction_fee == amount * s.fee_per_mwh * One
        cost == energy_cost + transaction_fee
        transaction == [ type |-> "charge",
                         amount |-> amount,
                         price |-> price,
                         energy_cost |-> energy_cost,
                         transaction_fee |-> transaction_fee,
                         cost |-> cost,
                         energy_level |-> s.energy_level + amount,
                         index |-> time_index,
                         interval |-> s.current_interval ]
    IN  IF amount <= 0
        THEN [s |-> [s EXCEPT !.is_charging = FALSE], ret |-> FALSE]
        ELSE [s |-> [s EXCEPT !.energy_level = @ + amount,
                              !.cash = @ - cost,
                              !.total_charged_energy = @ + amount,
                              !.total_charge_cost = @ + cost,
                              !.transactions = Append(@, transaction)],
              ret |-> TRUE]

\* a charge step that leaves the fee out of the cost
_charge_step_feeless(s, price, time_index) ==
    LET max_charge == MaxStep(s)
        available_capacity == s.capacity - s.energy_level
        amount == Min(max_charge, available_capacity)
        energy_cost == amount * price * One
        transaction_fee == amount * s.fee_per_mwh * One
        cost == energy_cost
        transaction == [ type |-> "charge",
                         amount |-> amount,
                         price |-> price,
                         energy_cost |-> energy_cost,
                         transaction_fee |-> transaction_fee,
                         cost |-> cost,
                         energy_level |-> s.energy_level + amount,
                         index |-> time_index,
                         interval |-> s.current_interval ]
    IN  IF amount <= 0
        THEN [s |-> [s EXCEPT !.is_charging = FALSE], ret |-> FALSE]
        ELSE [s |-> [s EXCEPT !.energy_level = @ + amount,
                              !.cash = @ - cost,
                              !.total_charged_energy = @ + amount,
                              !.total_charge_cost = @ + cost,
                              !.transactions = Append(@, transaction)],
              ret |-> TRUE]

\* EnergyStorage._charge_step; the result is the storage after the call and the return value
_charge_step(s, price, time_index) ==
    LET max_charge == MaxStep(s)
        available_capacity == s.capacity - s.energy_level
        amount == Min(max_charge, available_capacity)
        energy_cost == amount * price * One
        transaction_fee == amount * s.fee_per_mwh * One
        cost == energy_cost + transaction_fee
        transaction == [ type |-> "charge",
                         amount |-> amount,
                         price |-> price,
                         energy_cost |-> energy_cost,
                         transaction_fee |-> transaction_fee,
                         cost |-> cost,
                         energy_level |-> s.energy_level + amount,
                         index |-> time_index,
                         interval |-> s.current_interval ]
    IN  IF amount <= 0
        THEN [s |-> [s EXCEPT !.is_charging = FALSE], ret |-> FALSE]
        ELSE [s |-> [s EXCEPT !.energy_level = @ + amount,
                              !.cash = @ - cost,
                              !.total_charged_energy = @ + amount,
                              !.total_charge_cost = @ + cost,
                              !.transactions = Append(@, transaction)],
              ret |-> TRUE]

\* a discharge step that charges the fee on the gross energy
_discharge_step_grossfee(s, price, time_index) ==
    LET max_discharge == MaxStep(s)
        amount == Min(max_discharge, s.energy_level)
        gross_energy == amount
        usable_energy == amount * s.efficiency
        energy_loss == amount * (One - s.efficiency)
        gross_revenue == amount * price * One
        efficiency_loss == (gross_revenue * (One - s.efficiency)) \div One
        energy_revenue == usable_energy * price
        transaction_fee == amount * s.fee_per_mwh * One
        revenue == energy_revenue - transaction_fee
        transaction == [ type |-> "discharge",
                         amount_gross |-> gross_energy,
                         amount_usable |-> usable_energy,
                         energy_loss |-> energy_loss,
                         price |-> price,
                         gross_revenue |-> gross_revenue,
                         efficiency_loss |-> efficiency_loss,
                         energy_revenue |-> energy_revenue,
                         transaction_fee |-> transaction_fee,
                         revenue |-> revenue,
                         energy_level |-> s.energy_level - amount,
                         index |-> time_index,
                         interval |-> s.current_interval ]
        cycle_fraction == (amount * CycleScale) \div s.capacity
    IN  IF amount <= 0
        THEN [s |-> [s EXCEPT !.is_discharging = FALSE], ret |-> FALSE]
        ELSE [s |-> [s EXCEPT !.energy_level = @ - amount,
                              !.cash = @ + revenue,
                              !.total_gross_energy = @ + gross_energy,
                              !.total_discharged_energy = @ + usable_energy,
                              !.total_discharge_revenue = @ + revenue,
                              !.gross_energy_revenue = @ + gross_revenue,
                              !.efficiency_losses = @ + efficiency_loss,
                              !.energy_losses = @ + energy_loss,
                              !.transactions = Append(@, transaction),
                              !.daily_cycles = @ + cycle_fraction,
                              !.total_cycles = @ + cycle_fraction],
              ret |-> TRUE]

\* a discharge step that reports an empty step and stays in discharging mode
_discharge_step_stuck(s, price, time_index) ==
    LET max_discharge == MaxStep(s)
        amount == Min(max_discharge, s.energy_level)
        gross_energy == amount
        usable_energy == amount * s.efficiency
        energy_loss == amount * (One - s.efficiency)
        gross_revenue == amount * price * One
        efficiency_loss == (gross_revenue * (One - s.efficiency)) \div One
        energy_revenue == usable_energy * price
        transaction_fee == usable_energy * s.fee_per_mwh
        revenue == energy_revenue - transaction_fee
        transaction == [ type |-> "discharge",
                         amount_gross |-> gross_energy,
                         amount_usable |-> usable_energy,
                         energy_loss |-> energy_loss,
                         price |-> price,
                         gross_revenue |-> gross_revenue,
                         efficiency_loss |-> efficiency_loss,
                         energy_revenue |-> energy_revenue,
                         transaction_fee |-> transaction_fee,
                         revenue |-> revenue,
                         energy_level |-> s.energy_level - amount,
                         index |-> time_index,
                         interval |-> s.current_interval ]
        cycle_fraction == (amount * CycleScale) \div s.capacity
    IN  IF amount <= 0
        THEN [s |-> s, ret |-> FALSE]
        ELSE [s |-> [s EXCEPT !.energy_level = @ - amount,
                              !.cash = @ + revenue,
                              !.total_gross_energy = @ + gross_energy,
                              !.total_discharged_energy = @ + usable_energy,
                              !.total_discharge_revenue = @ + revenue,
                              !.gross_energy_revenue = @ + gross_revenue,
                              !.efficiency_losses = @ + efficiency_loss,
                              !.energy_losses = @ + energy_loss,
                              !.transactions = Append(@, transaction),
                              !.daily_cycles = @ + cycle_fraction,
                              !.total_cycles = @ + cycle_fraction],
              ret |-> TRUE]

\* EnergyStorage._discharge_step
_discharge_step(s, price, time_index) ==
    LET max_discharge == MaxStep(s)
        amount == Min(max_discharge, s.energy_level)
        gross_energy == amount
        usable_energy == amount * s.efficiency
        energy_loss == amount * (One - s.efficiency)
        gross_revenue == amount * price * One
        efficiency_loss == (gross_revenue * (One - s.efficiency)) \div One
        energy_revenue == usable_energy * price
        transaction_fee == usable_energy * s.fee_per_mwh
        revenue == energy_revenue - transaction_fee
        transaction == [ type |-> "discharge",
                         amount_gross |-> gross_energy,
                         amount_usable |-> usable_energy,
                         energy_loss |-> energy_loss,
                         price |-> price,
                         gross_revenue |-> gross_revenue,
                         efficiency_loss |-> efficiency_loss,
                         energy_revenue |-> energy_revenue,
                         transaction_fee |-> transaction_fee,
                         revenue |-> revenue,
                         energy_level |-> s.energy_level - amount,
                         index |-> time_index,
                         interval |-> s.current_interval ]
        cycle_fraction == (amount * CycleScale) \div s.capacity
    IN  IF amount <= 0
        THEN [s |-> [s EXCEPT !.is_discharging = FALSE], ret |-> FALSE]
        ELSE [s |-> [s EXCEPT !.energy_level = @ - amount,
                              !.cash = @ + revenue,
                              !.total_gross_energy = @ + gross_energy,
                              !.total_discharged_energy = @ + usable_energy,
                              !.total_discharge_revenue = @ + revenue,
                              !.gross_energy_revenue = @ + gross_revenue,
                              !.efficiency_losses = @ + efficiency_loss,
                              !.energy_losses = @ + energy_loss,
                              !.transactions = Append(@, transaction),
                              !.daily_cycles = @ + cycle_fraction,
                              !.total_cycles = @ + cycle_fraction],
              ret |-> TRUE]

\* a start_charging that records the price before it finds the battery full
start_charging_eager(s, price, time_index) ==
    IF s.is_charging \/ s.is_discharging
    THEN [s |-> s, ret |-> FALSE]
    ELSE IF s.energy_level >= s.capacity
    THEN [s |-> [s EXCEPT !.charging_price = price], ret |-> FALSE]
    ELSE _charge_step([s EXCEPT !.is_charging = TRUE,
                                !.charging_price = price,
                                !.charging_start_index = time_index,
                                !.current_interval = 0],
                      price, time_index)

\* EnergyStorage.start_charging
start_charging(s, price, time_index) ==
    IF s.is_charging \/ s.is_discharging
    THEN [s |-> s, ret |-> FALSE]
    ELSE IF s.energy_level >= s.capacity
    THEN [s |-> s, ret |-> FALSE]
    ELSE _charge_step([s EXCEPT !.is_charging = TRUE,
                                !.charging_price = price,
                                !.charging_start_index = time_index,
                                !.current_interval = 0],
                      price, time_index)

\* a start_discharging that only looks at its own mode flag
start_discharging_unguarded(s, price, time_index) ==
    IF s.is_discharging
    THEN [s |-> s, ret |-> FALSE]
    ELSE IF s.energy_level <= 0
    THEN [s |-> s, ret |-> FALSE]
    ELSE _discharge_step([s EXCEPT !.is_discharging = TRUE,
                                   !.discharging_price = price,
                                   !.charging_start_index = time_index,
                                   !.current_interval = 0],
                         price, time_index)

\* EnergyStorage.start_discharging
start_discharging(s, price, time_index) ==
    IF s.is_charging \/ s.is_discharging
    THEN [s |-> s, ret |-> FALSE]
    ELSE IF s.energy_level <= 0
    THEN [s |-> s, ret |-> FALSE]
    ELSE _discharge_step([s EXCEPT !.is_discharging = TRUE,
                                   !.discharging_price = price,
                                   !.charging_start_index = time_index,
                                   !.current_interval = 0],
                         price, time_index)

\* a continue_process that does not count the step
continue_process_uncounted(s, time_index) ==
    IF s.is_charging
    THEN _charge_step(s, s.charging_price, time_index)
    ELSE IF s.is_discharging
    THEN _discharge_step(s, s.discharging_price, time_index)
    ELSE [s |-> s, ret |-> FALSE]

\* a continue_process that reads the price of the other direction
continue_process_swapped(s, time_index) ==
    LET s1 == [s EXCEPT !.current_interval = @ + 1]
    IN  IF s1.is_charging
        THEN _charge_step(s1, s1.discharging_price, time_index)
        ELSE IF s1.is_discharging
        THEN _discharge_step(s1, s1.discharging_price, time_index)
        ELSE [s |-> s1, ret |-> FALSE]

\* EnergyStorage.continue_process
continue_process(s, time_index) ==
    LET s1 == [s EXCEPT !.current_interval = @ + 1]
    IN  IF s1.is_charging
        THEN _charge_step(s1, s1.charging_price, time_index)
        ELSE IF s1.is_discharging
        THEN _discharge_step(s1, s1.discharging_price, time_index)
        ELSE [s |-> s1, ret |-> FALSE]

\* an is_processing that looks at the charging flag only
is_processing_chargeonly(s) == s.is_charging

\* EnergyStorage.is_processing
is_processing(s) == s.is_charging \/ s.is_discharging

\* a profit that takes the revenue before the efficiency losses
get_total_profit_gross(s) == s.gross_energy_revenue - s.total_charge_cost

\* EnergyStorage.get_total_profit and the total_profit property
get_total_profit(s) == s.total_discharge_revenue - s.total_charge_cost

\* EnergyStorage.total_profit (property)
total_profit(s) == s.total_discharge_revenue - s.total_charge_cost

\* a reset that takes the gross energy withdrawn for a daily figure
reset_daily_transactions_gross(s) ==
    [s EXCEPT !.transactions = <<>>,
              !.is_charging = FALSE,
              !.is_discharging = FALSE,
              !.daily_cycles = 0,
              !.total_gross_energy = 0]

\* a reset that empties the log and keeps the daily cycle counter
reset_daily_transactions_logonly(s) ==
    [s EXCEPT !.transactions = <<>>,
              !.is_charging = FALSE,
              !.is_discharging = FALSE]

\* a reset that also zeroes the lifetime cycle counter
reset_daily_transactions_lifetime(s) ==
    [s EXCEPT !.transactions = <<>>,
              !.is_charging = FALSE,
              !.is_discharging = FALSE,
              !.daily_cycles = 0,
              !.total_cycles = 0]

\* a reset that takes the discharged energy for a daily figure
reset_daily_transactions_energy(s) ==
    [s EXCEPT !.transactions = <<>>,
              !.is_charging = FALSE,
              !.is_discharging = FALSE,
              !.daily_cycles = 0,
              !.total_discharged_energy = 0]

\* a reset that empties the log and leaves a running operation running
reset_daily_transactions_modekeeping(s) ==
    [s EXCEPT !.transactions = <<>>,
              !.daily_cycles = 0]

\* EnergyStorage.reset_daily_transactions
reset_daily_transactions(s) ==
    [s EXCEPT !.transactions = <<>>,
              !.is_charging = FALSE,
              !.is_discharging = FALSE,
              !.daily_cycles = 0]

----------------------------------------------------------------------------
(* The storage driven by an arbitrary caller *)

\* the mode a call finds the storage in
Mode(s) == IF s.is_charging THEN "charging" ELSE IF s.is_discharging THEN "discharging" ELSE "idle"

\* what the last step called: the method, its arguments, its return value and the mode it found
NoCall == [op |-> "none", price |-> 0, time_index |-> 0, ret |-> FALSE, mode |-> "idle"]

\* the state after construction, before the caller's first step
Constructed(configs) ==
    /\ \E c \in configs :
         storage = EnergyStorage(c.capacity_mwh, c.charge_rate, c.efficiency, c.fee_per_mwh)
    /\ call = NoCall
    /\ used = 0
    /\ pc = "caller"
    /\ runs = 0
    /\ price_array = <<>>
    /\ window_size = 0
    /\ idx = 0
    /\ energy_history = <<>>
    /\ charge_target = None
    /\ discharge_target = None
    /\ current_operation_price = None
    /\ last_discharge_price = 0
    /\ last_charge_price = Inf
    /\ current_price = Unbound
    /\ trades = <<>>
    /\ current_trade = <<>>
    /\ entry_index = 0

Init == Constructed(Configs \cup DegenerateConfigs)

\* a caller's storage.start_charging(price, time_index)
StartCharging ==
    /\ used < MaxCalls
    /\ \E price \in Prices, time_index \in TimeIndices :
         LET r == start_charging(storage, price, time_index)
         IN  /\ storage' = r.s
             /\ call' = [op |-> "start_charging", price |-> price,
                         time_index |-> time_index, ret |-> r.ret, mode |-> Mode(storage)]
    /\ used' = used + 1
    /\ UNCHANGED engine_vars
    /\ UNCHANGED summary_vars

\* a caller's storage.start_discharging(price, time_index)
StartDischarging ==
    /\ used < MaxCalls
    /\ \E price \in Prices, time_index \in TimeIndices :
         LET r == start_discharging(storage, price, time_index)
         IN  /\ storage' = r.s
             /\ call' = [op |-> "start_discharging", price |-> price,
                         time_index |-> time_index, ret |-> r.ret, mode |-> Mode(storage)]
    /\ used' = used + 1
    /\ UNCHANGED engine_vars
    /\ UNCHANGED summary_vars

\* a caller's storage.continue_process(time_index)
ContinueProcess ==
    /\ used < MaxCalls
    /\ \E time_index \in TimeIndices :
         LET r == continue_process(storage, time_index)
         IN  /\ storage' = r.s
             /\ call' = [op |-> "continue_process", price |-> 0,
                         time_index |-> time_index, ret |-> r.ret, mode |-> Mode(storage)]
    /\ used' = used + 1
    /\ UNCHANGED engine_vars
    /\ UNCHANGED summary_vars

\* a caller's storage.reset_daily_transactions()
ResetDailyTransactions ==
    /\ used < MaxCalls
    /\ storage' = reset_daily_transactions(storage)
    /\ call' = [NoCall EXCEPT !.op = "reset_daily_transactions", !.mode = Mode(storage)]
    /\ used' = used + 1
    /\ UNCHANGED engine_vars
    /\ UNCHANGED summary_vars

\* the engine's own stop: storage.is_charging = False
StopCharging ==
    /\ used < MaxCalls
    /\ storage.is_charging
    /\ storage' = [storage EXCEPT !.is_charging = FALSE]
    /\ call' = [NoCall EXCEPT !.op = "stop_charging", !.mode = Mode(storage)]
    /\ used' = used + 1
    /\ UNCHANGED engine_vars
    /\ UNCHANGED summary_vars

\* the engine's own stop: storage.is_discharging = False
StopDischarging ==
    /\ used < MaxCalls
    /\ storage.is_discharging
    /\ storage' = [storage EXCEPT !.is_discharging = FALSE]
    /\ call' = [NoCall EXCEPT !.op = "stop_discharging", !.mode = Mode(storage)]
    /\ used' = used + 1
    /\ UNCHANGED engine_vars
    /\ UNCHANGED summary_vars

Next ==
    \/ StartCharging
    \/ StartDischarging
    \/ ContinueProcess
    \/ ResetDailyTransactions
    \/ StopCharging
    \/ StopDischarging

Spec == Init /\ [][Next]_vars

----------------------------------------------------------------------------
(* strategies/threshold_lookahead.py: threshold_lookahead *)

\* window sizes a caller passes (config.ROLLING_WINDOW_SIZE is 6)
WindowSizes == {2, 6}

T == Len(price_array)

\* price_array[idx], the source's index being 0-based
PriceAt(i) == price_array[i + 1]

RECURSIVE SumSeq(_)
SumSeq(s) == IF s = <<>> THEN 0 ELSE Head(s) + SumSeq(Tail(s))

\* the k-th smallest element of s (k = 0 is the minimum): sorted(s)[k]
Kth(s, k) ==
    CHOOSE v \in {s[i] : i \in DOMAIN s} :
        /\ Cardinality({i \in DOMAIN s : s[i] < v}) <= k
        /\ k < Cardinality({i \in DOMAIN s : s[i] <= v})

\* One * np.percentile(s, q), numpy's default linear interpolation:
\* at rank (n-1)*q/100 between the two neighbouring order statistics
Percentile(s, q) ==
    LET n == Len(s)
        pos == (n - 1) * q
        lo == pos \div One
        frac == pos % One
        a == Kth(s, lo)
        b == Kth(s, Min(lo + 1, n - 1))
    IN  One * a + (b - a) * frac

\* look_ahead_window = min(window_size, T - idx)
look_ahead_window == Min(window_size, T - idx)

\* future_prices = price_array[idx : idx + look_ahead_window]
future_prices == SubSeq(price_array, idx + 1, idx + look_ahead_window)

\* an action flag that only tells a charge
ActionFlag_chargeonly(s) == IF s.is_charging THEN 1 ELSE 0

\* the action flag of the history entry
ActionFlag(s) == IF s.is_charging THEN 1 ELSE IF s.is_discharging THEN -1 ELSE 0

\* energy_history.append({...}) at the top of the loop body
HistoryEntry == [time_index |-> idx, energy_level |-> storage.energy_level, action |-> ActionFlag(storage)]

\* a target test that waits until the storage is full
ChargeTargetReached_full(s, target) == s.energy_level >= s.capacity

\* a target test without the tolerance
ChargeTargetReached_exact(s, target) ==
    10 * TargetScale * s.energy_level >= 10 * Val(target)

\* storage.energy_level >= charge_target - 0.1
ChargeTargetReached(s, target) ==
    10 * TargetScale * s.energy_level >= 10 * Val(target) - EnergyScale * TargetScale

\* a target test that never stops a discharge
DischargeTargetReached_never(s, target) == FALSE

\* storage.energy_level <= discharge_target + 0.1
DischargeTargetReached(s, target) ==
    10 * TargetScale * s.energy_level <= 10 * Val(target) + EnergyScale * TargetScale

\* storage.energy_level < storage.capacity * 0.9
RoomLeft(s) == 10 * s.energy_level < 9 * s.capacity

\* a charge test that does not compare with the last charge price
ChargeSignal_forgetful(price, fp, last_charge) ==
    LET buy_threshold_price == Percentile(fp, 20)
        is_very_low_price == One * price < buy_threshold_price
        price_likely_to_rise == 10 * SumSeq(fp) > 12 * price * Len(fp)
        is_better_than_last_charge ==
            TRUE
    IN  is_very_low_price /\ price_likely_to_rise
        /\ (is_better_than_last_charge \/ last_charge = Inf)

\* a charge test that lets a price equal to the buy threshold pass
ChargeSignal_nonstrict(price, fp, last_charge) ==
    LET buy_threshold_price == Percentile(fp, 20)
        is_very_low_price == One * price <= buy_threshold_price
        price_likely_to_rise == 10 * SumSeq(fp) > 12 * price * Len(fp)
        is_better_than_last_charge ==
            IF last_charge = Inf THEN TRUE ELSE 100 * price < 95 * Val(last_charge)
    IN  is_very_low_price /\ price_likely_to_rise
        /\ (is_better_than_last_charge \/ last_charge = Inf)

\* is_very_low_price and price_likely_to_rise and
\* (is_better_than_last_charge or last_charge_price == float("inf"))
ChargeSignal(price, fp, last_charge) ==
    LET buy_threshold_price == Percentile(fp, 20)
        is_very_low_price == One * price < buy_threshold_price
        price_likely_to_rise == 10 * SumSeq(fp) > 12 * price * Len(fp)
        is_better_than_last_charge ==
            IF last_charge = Inf THEN TRUE ELSE 100 * price < 95 * Val(last_charge)
    IN  is_very_low_price /\ price_likely_to_rise
        /\ (is_better_than_last_charge \/ last_charge = Inf)

\* a charge sizing that takes the larger fraction only below the window's minimum
ChargeTargetAmount_minimum(s, price, fp) ==
    LET available_capacity == s.capacity - s.energy_level
    IN  IF One * price < Percentile(fp, 0)
        THEN available_capacity * 8
        ELSE available_capacity * 5

\* target_amount of a charge, in 1/(EnergyScale*TargetScale) MWh
ChargeTargetAmount(s, price, fp) ==
    LET available_capacity == s.capacity - s.energy_level
    IN  IF One * price < Percentile(fp, 10)
        THEN available_capacity * 8
        ELSE available_capacity * 5

\* target_amount >= storage.capacity * 0.1
WorthTrading(s, target_amount) == 10 * target_amount >= s.capacity * TargetScale

\* storage.energy_level > storage.capacity * 0.1
EnergyLeft(s) == 10 * s.energy_level > s.capacity

\* a discharge test that only compares with the last discharge price
DischargeSignal_priceonly(price, fp, last_discharge) ==
    LET is_better_than_last_discharge == 100 * price > 105 * last_discharge
    IN  is_better_than_last_discharge \/ last_discharge = 0

\* a discharge test that accepts any mean below the price
DischargeSignal_lax(price, fp, last_discharge) ==
    LET sell_threshold_price == Percentile(fp, 80)
        is_very_high_price == One * price > sell_threshold_price
        price_likely_to_fall == SumSeq(fp) < price * Len(fp)
        is_better_than_last_discharge == 100 * price > 105 * last_discharge
    IN  is_very_high_price /\ price_likely_to_fall
        /\ (is_better_than_last_discharge \/ last_discharge = 0)

\* is_very_high_price and price_likely_to_fall and
\* (is_better_than_last_discharge or last_discharge_price == 0)
DischargeSignal(price, fp, last_discharge) ==
    LET sell_threshold_price == Percentile(fp, 80)
        is_very_high_price == One * price > sell_threshold_price
        price_likely_to_fall == 10 * SumSeq(fp) < 9 * price * Len(fp)
        is_better_than_last_discharge == 100 * price > 105 * last_discharge
    IN  is_very_high_price /\ price_likely_to_fall
        /\ (is_better_than_last_discharge \/ last_discharge = 0)

\* a discharge sizing that always takes the larger fraction
DischargeTargetAmount_large(s, price, fp) ==
    LET available_energy == s.energy_level
    IN  available_energy * 8

\* target_amount of a discharge, in 1/(EnergyScale*TargetScale) MWh
DischargeTargetAmount(s, price, fp) ==
    LET available_energy == s.energy_level
    IN  IF One * price > Percentile(fp, 90)
        THEN available_energy * 8
        ELSE available_energy * 5

\* the charge branch is taken at idx: lines 154, 174, 186-192 and 206
ChargeStarts ==
    /\ look_ahead_window >= 1
    /\ RoomLeft(storage)
    /\ ChargeSignal(PriceAt(idx), future_prices, last_charge_price)
    /\ WorthTrading(storage, ChargeTargetAmount(storage, PriceAt(idx), future_prices))

\* the discharge branch is taken at idx: lines 154, 249, 260-264 and 280
DischargeStarts ==
    /\ look_ahead_window >= 1
    /\ EnergyLeft(storage)
    /\ DischargeSignal(PriceAt(idx), future_prices, last_discharge_price)
    /\ WorthTrading(storage, DischargeTargetAmount(storage, PriceAt(idx), future_prices))

\* a caller's threshold_lookahead(prices_df, storage, window_size): the locals before the loop
EngineCall ==
    /\ pc = "caller"
    /\ runs < MaxRuns
    /\ \E n \in 0..(MaxT - used) :
         \E prices \in [1..n -> Prices] :
            /\ price_array' = prices
            /\ used' = used + n
    /\ \E w \in WindowSizes : window_size' = w
    /\ runs' = runs + 1
    /\ pc' = "loop"
    /\ idx' = 0
    /\ energy_history' = <<>>
    /\ charge_target' = None
    /\ discharge_target' = None
    /\ current_operation_price' = None
    /\ last_discharge_price' = 0
    /\ last_charge_price' = Inf
    /\ current_price' = Unbound
    /\ UNCHANGED <<storage, call>>
    /\ UNCHANGED summary_vars

\* a loop body that records no history entry while an operation is in progress
Iteration_unrecorded ==
    /\ pc = "loop"
    /\ idx < T
    /\ energy_history' = (IF is_processing(storage) THEN energy_history ELSE Append(energy_history, HistoryEntry))
    /\ idx' = idx + 1
    /\ UNCHANGED <<pc, runs, used, price_array, window_size>>
    /\ UNCHANGED summary_vars

\* what every loop iteration does: record the history entry, advance idx
Iteration ==
    /\ pc = "loop"
    /\ idx < T
    /\ energy_history' = Append(energy_history, HistoryEntry)
    /\ idx' = idx + 1
    /\ UNCHANGED <<pc, runs, used, price_array, window_size>>
    /\ UNCHANGED summary_vars

\* a completion that keeps the charge target
ChargeCompleted_keeping ==
    /\ Iteration
    /\ is_processing(storage)
    /\ storage.is_charging /\ charge_target # None
    /\ ChargeTargetReached(storage, charge_target)
    /\ storage' = [storage EXCEPT !.is_charging = FALSE]
    /\ call' = NoCall
    /\ current_operation_price' = None
    /\ UNCHANGED <<charge_target, discharge_target, last_discharge_price, last_charge_price, current_price>>

\* lines 109-117: the charge target is reached
ChargeCompleted ==
    /\ Iteration
    /\ is_processing(storage)
    /\ storage.is_charging /\ charge_target # None
    /\ ChargeTargetReached(storage, charge_target)
    /\ storage' = [storage EXCEPT !.is_charging = FALSE]
    /\ call' = NoCall
    /\ charge_target' = None
    /\ current_operation_price' = None
    /\ UNCHANGED <<discharge_target, last_discharge_price, last_charge_price, current_price>>

\* lines 109-120: the charge goes on
ChargeContinued ==
    /\ Iteration
    /\ is_processing(storage)
    /\ storage.is_charging /\ charge_target # None
    /\ ~ChargeTargetReached(storage, charge_target)
    /\ LET r == continue_process(storage, idx)
       IN  /\ storage' = r.s
           /\ call' = [op |-> "continue_process", price |-> 0, time_index |-> idx, ret |-> r.ret, mode |-> Mode(storage)]
    /\ UNCHANGED <<charge_target, discharge_target, current_operation_price, last_discharge_price, last_charge_price, current_price>>

\* a completion that reads the price of the index at which it is detected
DischargeCompleted_fresh ==
    /\ Iteration
    /\ is_processing(storage)
    /\ ~(storage.is_charging /\ charge_target # None)
    /\ storage.is_discharging /\ discharge_target # None
    /\ DischargeTargetReached(storage, discharge_target)
    /\ storage' = [storage EXCEPT !.is_discharging = FALSE]
    /\ call' = NoCall
    /\ discharge_target' = None
    /\ current_operation_price' = None
    /\ last_discharge_price' = PriceAt(idx)
    /\ last_charge_price' = Inf
    /\ UNCHANGED <<charge_target, current_price>>

\* lines 122-136: the discharge target is reached
DischargeCompleted ==
    /\ Iteration
    /\ is_processing(storage)
    /\ ~(storage.is_charging /\ charge_target # None)
    /\ storage.is_discharging /\ discharge_target # None
    /\ DischargeTargetReached(storage, discharge_target)
    /\ storage' = [storage EXCEPT !.is_discharging = FALSE]
    /\ call' = NoCall
    /\ discharge_target' = None
    /\ current_operation_price' = None
    /\ last_discharge_price' = (IF current_price # Unbound THEN Val(current_price) ELSE 0)
    /\ last_charge_price' = Inf
    /\ UNCHANGED <<charge_target, current_price>>

\* lines 122-139: the discharge goes on
DischargeContinued ==
    /\ Iteration
    /\ is_processing(storage)
    /\ ~(storage.is_charging /\ charge_target # None)
    /\ storage.is_discharging /\ discharge_target # None
    /\ ~DischargeTargetReached(storage, discharge_target)
    /\ LET r == continue_process(storage, idx)
       IN  /\ storage' = r.s
           /\ call' = [op |-> "continue_process", price |-> 0, time_index |-> idx, ret |-> r.ret, mode |-> Mode(storage)]
    /\ UNCHANGED <<charge_target, discharge_target, current_operation_price, last_discharge_price, last_charge_price, current_price>>

\* lines 140-142: an operation is in progress and has no target
ContinuedWithoutTarget ==
    /\ Iteration
    /\ is_processing(storage)
    /\ ~(storage.is_charging /\ charge_target # None)
    /\ ~(storage.is_discharging /\ discharge_target # None)
    /\ LET r == continue_process(storage, idx)
       IN  /\ storage' = r.s
           /\ call' = [op |-> "continue_process", price |-> 0, time_index |-> idx, ret |-> r.ret, mode |-> Mode(storage)]
    /\ UNCHANGED <<charge_target, discharge_target, current_operation_price, last_discharge_price, last_charge_price, current_price>>

\* lines 148-246: a charge is started at idx
ChargeStarted ==
    /\ Iteration
    /\ ~is_processing(storage)
    /\ ChargeStarts
    /\ current_price' = Num(PriceAt(idx))
    /\ charge_target' =
         Num(Min(storage.energy_level * TargetScale
                   + ChargeTargetAmount(storage, PriceAt(idx), future_prices),
                 storage.capacity * TargetScale))
    /\ last_charge_price' = Num(PriceAt(idx))
    /\ current_operation_price' = Num(PriceAt(idx))
    /\ LET r == start_charging(storage, PriceAt(idx), idx)
       IN  /\ storage' = r.s
           /\ call' = [op |-> "start_charging", price |-> PriceAt(idx), time_index |-> idx, ret |-> r.ret, mode |-> Mode(storage)]
    /\ last_discharge_price' = 0
    /\ UNCHANGED discharge_target

\* a discharge start that keeps the last charge price
DischargeStarted_keeping ==
    /\ Iteration
    /\ ~is_processing(storage)
    /\ ~ChargeStarts
    /\ DischargeStarts
    /\ current_price' = Num(PriceAt(idx))
    /\ discharge_target' =
         Num(Max(storage.energy_level * TargetScale
                   - DischargeTargetAmount(storage, PriceAt(idx), future_prices),
                 0))
    /\ current_operation_price' = Num(PriceAt(idx))
    /\ last_discharge_price' = PriceAt(idx)
    /\ LET r == start_discharging(storage, PriceAt(idx), idx)
       IN  /\ storage' = r.s
           /\ call' = [op |-> "start_discharging", price |-> PriceAt(idx), time_index |-> idx, ret |-> r.ret, mode |-> Mode(storage)]
    /\ UNCHANGED <<charge_target, last_charge_price>>

\* lines 148-318: no charge is started and a discharge is started at idx
DischargeStarted ==
    /\ Iteration
    /\ ~is_processing(storage)
    /\ ~ChargeStarts
    /\ DischargeStarts
    /\ current_price' = Num(PriceAt(idx))
    /\ discharge_target' =
         Num(Max(storage.energy_level * TargetScale
                   - DischargeTargetAmount(storage, PriceAt(idx), future_prices),
                 0))
    /\ current_operation_price' = Num(PriceAt(idx))
    /\ last_discharge_price' = PriceAt(idx)
    /\ last_charge_price' = Inf
    /\ LET r == start_discharging(storage, PriceAt(idx), idx)
       IN  /\ storage' = r.s
           /\ call' = [op |-> "start_discharging", price |-> PriceAt(idx), time_index |-> idx, ret |-> r.ret, mode |-> Mode(storage)]
    /\ UNCHANGED charge_target

\* lines 148-320: neither is started
Hold ==
    /\ Iteration
    /\ ~is_processing(storage)
    /\ ~ChargeStarts
    /\ ~DischargeStarts
    /\ current_price' = Num(PriceAt(idx))
    /\ call' = NoCall
    /\ UNCHANGED <<storage, charge_target, discharge_target, current_operation_price, last_discharge_price, last_charge_price>>

\* lines 88 and 322-325: the loop ends and threshold_lookahead returns
EngineReturn ==
    /\ pc = "loop"
    /\ ~(idx < T)
    /\ pc' = "caller"
    /\ call' = NoCall
    /\ UNCHANGED <<storage, used, runs, price_array, window_size, idx, energy_history, charge_target, discharge_target, current_operation_price, last_discharge_price, last_charge_price, current_price>>
    /\ UNCHANGED summary_vars

\* between two runs the caller may call storage.reset_daily_transactions()
CallerReset ==
    /\ pc = "caller"
    /\ runs >= 1
    /\ runs < MaxRuns
    /\ call.op # "reset_daily_transactions"
    /\ storage' = reset_daily_transactions(storage)
    /\ call' = [NoCall EXCEPT !.op = "reset_daily_transactions", !.mode = Mode(storage)]
    /\ UNCHANGED <<used, pc, runs, price_array, window_size, idx, energy_history, charge_target, discharge_target, current_operation_price, last_discharge_price, last_charge_price, current_price>>
    /\ UNCHANGED summary_vars

NextEngine ==
    \/ EngineCall
    \/ ChargeCompleted
    \/ ChargeContinued
    \/ DischargeCompleted
    \/ DischargeContinued
    \/ ContinuedWithoutTarget
    \/ ChargeStarted
    \/ DischargeStarted
    \/ Hold
    \/ EngineReturn
    \/ CallerReset

InitEngine == Constructed(Configs)

SpecEngine == InitEngine /\ [][NextEngine]_vars

\* the engine on any storage the constructor accepts, a C-rate of 0 included
SpecEngineAny == Init /\ [][NextEngine]_vars

----------------------------------------------------------------------------
(* threshold_lookahead on series long enough for full windows of 6 and 7 prices *)

\* length of the longest series of this specification
MaxW == 7

\* prices of these series
WidePrices == {-10, 5, 50}

\* window sizes a caller passes: config.ROLLING_WINDOW_SIZE and one more
WideWindowSizes == {6, 7}

\* the storages handed to the engine, as <<C-rate, number of charge steps taken before>>:
\* a 1.5C storage at 0, 0.375, 0.75 and 1 MWh, a 0.5C storage at 0.125 and 0.875 MWh
Handovers == {<<3, 0>>, <<3, 1>>, <<3, 2>>, <<3, 3>>, <<1, 1>>, <<1, 7>>}

RECURSIVE ChargedSteps(_, _)
\* a new storage after a charge operation of n steps at 5 EUR/MWh
ChargedSteps(s, n) ==
    IF n = 0 THEN s
    ELSE IF n = 1 THEN start_charging(s, 5, 0).s
    ELSE continue_process(ChargedSteps(s, n - 1), n - 1).s

\* the storage a caller hands to threshold_lookahead: 1 MWh, charged, then reset for
\* the next accounting period
HandedOver(h) == reset_daily_transactions(ChargedSteps(EnergyStorage(8, h[1], 85, 0), h[2]))

\* threshold_lookahead(prices_df, storage, window_size) is called: the locals before the loop
InitWide ==
    /\ \E h \in Handovers : storage = HandedOver(h)
    /\ \E n \in (MaxW - 1)..MaxW : price_array \in [1..n -> WidePrices]
    /\ window_size \in WideWindowSizes
    /\ call = NoCall
    /\ used = MaxT
    /\ pc = "loop"
    /\ runs = 1
    /\ idx = 0
    /\ energy_history = <<>>
    /\ charge_target = None
    /\ discharge_target = None
    /\ current_operation_price = None
    /\ last_discharge_price = 0
    /\ last_charge_price = Inf
    /\ current_price = Unbound
    /\ trades = <<>>
    /\ current_trade = <<>>
    /\ entry_index = 0

NextWide ==
    \/ ChargeCompleted
    \/ ChargeContinued
    \/ DischargeCompleted
    \/ DischargeContinued
    \/ ChargeStarted
    \/ DischargeStarted
    \/ Hold
    \/ EngineReturn

SpecWide == InitWide /\ [][NextWide]_vars

----------------------------------------------------------------------------
(* A caller that calls continue_process again and again on a storage in a mode *)

\* a new storage with the constructor arguments c
Fresh(c) == EnergyStorage(c.capacity_mwh, c.charge_rate, c.efficiency, c.fee_per_mwh)

\* the storage has just started a charge, or has been charged by one or two steps, reset and
\* has just started a discharge
InitContinue ==
    /\ \E c \in Configs, price \in Prices :
         \/ storage = start_charging(Fresh(c), price, 0).s
         \/ \E n \in 1..2 :
              storage = start_discharging(reset_daily_transactions(ChargedSteps(Fresh(c), n)),
                                          price, 0).s
    /\ call = NoCall
    /\ used = 0
    /\ pc = "caller"
    /\ runs = 0
    /\ price_array = <<>>
    /\ window_size = 0
    /\ idx = 0
    /\ energy_history = <<>>
    /\ charge_target = None
    /\ discharge_target = None
    /\ current_operation_price = None
    /\ last_discharge_price = 0
    /\ last_charge_price = Inf
    /\ current_price = Unbound
    /\ trades = <<>>
    /\ current_trade = <<>>
    /\ entry_index = 0

\* the caller goes on calling while it has calls left
SpecContinue == InitContinue /\ [][ContinueProcess]_vars /\ WF_vars(ContinueProcess)

----------------------------------------------------------------------------
(* strategies/threshold_lookahead.py: create_trading_summary *)

\* number of entries of an energy history handed to create_trading_summary
MaxH == 5

\* energy levels of the entries of such a history
EnergyLevels == {3, 8}

\* time index of its first entry
FirstIndices == {0, 7}

\* an energy history: the entries' levels and actions, consecutive time indices from first
History(first, levels, actions) ==
    [k \in DOMAIN actions |-> [time_index |-> first + k - 1,
                               energy_level |-> levels[k],
                               action |-> actions[k]]]

Abs(x) == IF x >= 0 THEN x ELSE -x

\* current_trade = {...}: a new trade begins at state
NewTrade(state) ==
    [ type |-> IF state.action = 1 THEN "charge" ELSE "discharge",
      start_index |-> state.time_index,
      start_energy |-> state.energy_level,
      intervals |-> 1 ]

\* a closed trade whose energy_traded keeps the sign of end_energy - start_energy
ClosedTrade_signed(trade, end_index, end_energy) ==
    [ type |-> trade.type,
      start_index |-> trade.start_index,
      start_energy |-> trade.start_energy,
      intervals |-> trade.intervals,
      end_index |-> end_index,
      end_energy |-> end_energy,
      energy_traded |-> end_energy - trade.start_energy ]

\* current_trade with end_index, end_energy and energy_traded set
ClosedTrade(trade, end_index, end_energy) ==
    [ type |-> trade.type,
      start_index |-> trade.start_index,
      start_energy |-> trade.start_energy,
      intervals |-> trade.intervals,
      end_index |-> end_index,
      end_energy |-> end_energy,
      energy_traded |-> Abs(end_energy - trade.start_energy) ]

\* one pass of the for loop over entry k of history (the source's i is k - 1);
\* acc holds trades and current_trade
SummaryStep(history, k, acc) ==
    LET state == history[k]
    IN  IF state.action # 0 /\ acc.current_trade = None
        THEN [acc EXCEPT !.current_trade = Num(NewTrade(state))]
        ELSE IF acc.current_trade # None
        THEN IF state.action = 0
             THEN [ trades |-> Append(acc.trades,
                                      ClosedTrade(Val(acc.current_trade),
                                                  state.time_index - 1,
                                                  IF k - 1 > 0
                                                  THEN history[k - 1].energy_level
                                                  ELSE state.energy_level)),
                    current_trade |-> None ]
             ELSE [acc EXCEPT !.current_trade =
                                Num([Val(@) EXCEPT !.intervals = @ + 1])]
        ELSE acc

\* an end of the loop that drops a trade that is still open
SummaryClose_dropping(history, acc) == acc.trades

\* after the loop: a trade that is still open is closed at the last entry
SummaryClose(history, acc) ==
    IF acc.current_trade # None
    THEN Append(acc.trades,
                ClosedTrade(Val(acc.current_trade),
                            history[Len(history)].time_index,
                            history[Len(history)].energy_level))
    ELSE acc.trades

RECURSIVE SummaryLoop(_, _, _)
\* the for loop from entry k on
SummaryLoop(history, k, acc) ==
    IF k > Len(history) THEN acc
    ELSE SummaryLoop(history, k + 1, SummaryStep(history, k, acc))

\* create_trading_summary(energy_history)
create_trading_summary(history) ==
    SummaryClose(history, SummaryLoop(history, 1, [trades |-> <<>>, current_trade |-> None]))

\* a caller's create_trading_summary(energy_history), before the loop
InitSummary ==
    /\ \E n \in 0..MaxH :
         \E first \in FirstIndices, levels \in [1..n -> EnergyLevels], actions \in [1..n -> {-1, 0, 1}] :
            energy_history = History(first, levels, actions)
    /\ pc = "summary"
    /\ trades = <<>>
    /\ current_trade = None
    /\ entry_index = 0
    /\ storage = EnergyStorage(8, 3, 85, 0)
    /\ call = NoCall
    /\ used = 0
    /\ runs = 0
    /\ price_array = <<>>
    /\ window_size = 0
    /\ idx = 0
    /\ charge_target = None
    /\ discharge_target = None
    /\ current_operation_price = None
    /\ last_discharge_price = 0
    /\ last_charge_price = Inf
    /\ current_price = Unbound

\* one pass of the for loop
SummaryIteration ==
    /\ pc = "summary"
    /\ entry_index < Len(energy_history)
    /\ LET acc == SummaryStep(energy_history, entry_index + 1,
                              [trades |-> trades, current_trade |-> current_trade])
       IN  /\ trades' = acc.trades
           /\ current_trade' = acc.current_trade
    /\ entry_index' = entry_index + 1
    /\ UNCHANGED <<storage, call, used, pc, engine_vars>>

\* lines 336-343: a trade begins
TradeBegins ==
    /\ SummaryIteration
    /\ energy_history[entry_index + 1].action # 0 /\ current_trade = None

\* lines 344-357: the open trade ends
TradeEnds ==
    /\ SummaryIteration
    /\ current_trade # None
    /\ energy_history[entry_index + 1].action = 0

\* lines 358-360: the open trade goes on
TradeGoesOn ==
    /\ SummaryIteration
    /\ current_trade # None
    /\ energy_history[entry_index + 1].action # 0

\* neither branch: an idle entry and no open trade
IdleEntry ==
    /\ SummaryIteration
    /\ energy_history[entry_index + 1].action = 0 /\ current_trade = None

\* lines 362-371: the loop is over, an open trade is closed, trades is returned
SummaryReturn ==
    /\ pc = "summary"
    /\ entry_index = Len(energy_history)
    /\ trades' = SummaryClose(energy_history, [trades |-> trades, current_trade |-> current_trade])
    /\ pc' = "returned"
    /\ UNCHANGED <<storage, call, used, runs, price_array, window_size, idx, energy_history, charge_target, discharge_target, current_operation_price, last_discharge_price, last_charge_price, current_price, current_trade, entry_index>>

NextSummary ==
    \/ TradeBegins
    \/ TradeEnds
    \/ TradeGoesOn
    \/ IdleEntry
    \/ SummaryReturn

SpecSummary == InitSummary /\ [][NextSummary]_vars

----------------------------------------------------------------------------
(* Properties *)

Last(s) == s[Len(s)]

\* the step just taken was a call of start_charging or start_discharging
StartCallTaken == call'.op \in {"start_charging", "start_discharging"}

\* the precondition of the start call just taken failed in the state before it
StartPreconditionFailed ==
    \/ is_processing(storage)
    \/ call'.op = "start_charging" /\ storage.energy_level >= storage.capacity
    \/ call'.op = "start_discharging" /\ storage.energy_level <= 0

\* C1: in every state reachable by start_charging, start_discharging, continue_process,
\* reset_daily_transactions and the engine's stops from an empty storage,
\* 0 <= energy_level <= capacity.
C1_EnergyWithinCapacity ==
    0 <= storage.energy_level /\ storage.energy_level <= storage.capacity

\* C1 witness: the storage was filled to capacity by a step clipped to the room left.
C1_Witness ==
    /\ storage.energy_level = storage.capacity
    /\ storage.transactions # <<>>
    /\ Last(storage.transactions).type = "charge"
    /\ Last(storage.transactions).amount < MaxStep(storage)

\* C2: is_charging and is_discharging are never both true, and is_processing() is true
\* exactly when the mode is not Idle.
C2_ModesExclusive ==
    /\ ~(storage.is_charging /\ storage.is_discharging)
    /\ is_processing(storage) = (storage.is_charging \/ storage.is_discharging)

\* C2 witness: start_discharging was refused while a charge was in progress.
C2_Witness ==
    /\ call.op = "start_discharging"
    /\ ~call.ret
    /\ storage.is_charging

\* C3 as stated: every start_charging or start_discharging call that returns false leaves
\* every field of the storage unchanged, for every storage configuration.
C3_FalseStartChangesNothing ==
    [][StartCallTaken /\ ~call'.ret => storage' = storage]_vars

\* C3 amended: a start call whose precondition fails (mode not Idle, charging at
\* energy_level >= capacity, discharging at energy_level <= 0) returns false and leaves every
\* field of the storage unchanged; with max_power > 0 a start call returns false only then.
C3_FailedPreconditionChangesNothing ==
    [][StartCallTaken =>
         /\ StartPreconditionFailed => ~call'.ret /\ storage' = storage
         /\ ~call'.ret /\ storage.max_power > 0 => StartPreconditionFailed]_vars

\* C3 witness: start_charging was refused on an Idle storage filled to capacity.
C3_Witness ==
    /\ call.op = "start_charging"
    /\ ~call.ret
    /\ ~is_processing(storage)
    /\ storage.energy_level >= storage.capacity
    /\ storage.max_power > 0

\* the step just taken was a successful charge step (of start_charging or continue_process)
ChargeStepTaken ==
    /\ call'.op \in {"start_charging", "continue_process"}
    /\ call'.ret
    /\ storage'.is_charging

\* the step just taken was a successful discharge step
DischargeStepTaken ==
    /\ call'.op \in {"start_discharging", "continue_process"}
    /\ call'.ret
    /\ storage'.is_discharging

\* the step just taken appended one transaction to the log
TransactionAppended == Len(storage'.transactions) = Len(storage.transactions) + 1

\* C7: every successful charge step moves amount = min(max_power * 0.25, capacity -
\* energy_level) > 0: energy_level and total_charged_energy grow by amount, cash falls and
\* total_charge_cost grows by cost = amount * price + amount * fee_per_mwh, exactly one
\* charge transaction with that amount, price, cost and the new energy level is appended,
\* and no efficiency loss is applied.
C7_ChargeStep ==
    [][ChargeStepTaken =>
         LET amount == Min(MaxStep(storage), storage.capacity - storage.energy_level)
             price == IF call'.op = "start_charging" THEN call'.price ELSE storage.charging_price
             cost == amount * price * One + amount * storage.fee_per_mwh * One
             tx == Last(storage'.transactions)
         IN  /\ amount > 0
             /\ storage'.energy_level = storage.energy_level + amount
             /\ storage'.total_charged_energy = storage.total_charged_energy + amount
             /\ storage'.cash = storage.cash - cost
             /\ storage'.total_charge_cost = storage.total_charge_cost + cost
             /\ storage'.transactions = Append(storage.transactions, tx)
             /\ tx.type = "charge" /\ tx.amount = amount /\ tx.price = price
             /\ tx.cost = cost /\ tx.energy_level = storage'.energy_level
             /\ storage'.energy_losses = storage.energy_losses
             /\ storage'.efficiency_losses = storage.efficiency_losses]_vars

\* C7 witness: a charge went on with a second step, at a negative price and with a fee.
C7_Witness ==
    /\ call.op = "continue_process" /\ call.ret
    /\ storage.is_charging
    /\ storage.fee_per_mwh > 0
    /\ Last(storage.transactions).price < 0

\* C8: every successful discharge step removes amount = min(max_power * 0.25, energy_level)
\* > 0 and records usable = amount * efficiency and loss = amount * (1 - efficiency), so
\* usable + loss = amount and usable <= amount, strictly when efficiency < 1; cash and
\* total_discharge_revenue grow by revenue = usable * price - usable * fee_per_mwh.
C8_DischargeStep ==
    [][DischargeStepTaken =>
         LET amount == Min(MaxStep(storage), storage.energy_level)
             price == IF call'.op = "start_discharging" THEN call'.price ELSE storage.discharging_price
             usable == amount * storage.efficiency
             loss == amount * (One - storage.efficiency)
             revenue == usable * price - usable * storage.fee_per_mwh
             tx == Last(storage'.transactions)
         IN  /\ amount > 0
             /\ storage'.energy_level = storage.energy_level - amount
             /\ storage'.transactions = Append(storage.transactions, tx)
             /\ tx.type = "discharge" /\ tx.amount_gross = amount
             /\ tx.amount_usable = usable /\ tx.energy_loss = loss
             /\ tx.amount_usable + tx.energy_loss = One * tx.amount_gross
             /\ tx.amount_usable <= One * tx.amount_gross
             /\ storage.efficiency < One => tx.amount_usable < One * tx.amount_gross
             /\ tx.revenue = revenue
             /\ storage'.cash = storage.cash + revenue
             /\ storage'.total_discharge_revenue = storage.total_discharge_revenue + revenue]_vars

\* C8 witness: a discharge step was taken with efficiency < 1 and a fee.
C8_Witness ==
    /\ call.op \in {"start_discharging", "continue_process"} /\ call.ret
    /\ storage.is_discharging
    /\ storage.efficiency < One
    /\ storage.fee_per_mwh > 0

RECURSIVE CycleSum(_, _)
\* the sum over the discharge transactions of log of amount_gross / capacity
CycleSum(log, capacity) ==
    IF log = <<>> THEN 0
    ELSE CycleSum(Tail(log), capacity)
           + (IF Head(log).type = "discharge"
              THEN (Head(log).amount_gross * CycleScale) \div capacity
              ELSE 0)

\* C10 as stated: after any sequence of storage operations, total_cycles equals the sum of
\* amount_gross / capacity over the discharge transactions in the transaction log.
C10_TotalCyclesIsLogSum ==
    storage.total_cycles = CycleSum(storage.transactions, storage.capacity)

\* C10 amended: total_cycles starts at 0 and grows by amount_gross / capacity with every
\* discharge transaction appended and changes in no other step, also not in
\* reset_daily_transactions, which empties the log: total_cycles is at least the sum over the
\* log, and the two differ only by what resets have removed from the log.
C10_TotalCyclesCountsEveryDischarge ==
    /\ storage.total_cycles = 0
    /\ [][storage'.total_cycles - storage.total_cycles =
            (IF TransactionAppended
             THEN CycleSum(<<Last(storage'.transactions)>>, storage.capacity)
             ELSE 0)]_vars
    /\ [](storage.total_cycles >= CycleSum(storage.transactions, storage.capacity))
    /\ [][call'.op # "reset_daily_transactions" =>
            storage'.total_cycles - CycleSum(storage'.transactions, storage.capacity)
              = storage.total_cycles - CycleSum(storage.transactions, storage.capacity)]_vars

\* C10 witness: reset_daily_transactions emptied a log that held a discharge.
C10_Witness ==
    /\ call.op = "reset_daily_transactions"
    /\ storage.total_cycles > 0
    /\ storage.transactions = <<>>

----------------------------------------------------------------------------
(* Properties of the engine *)

\* the engine enters index idx with no operation in progress
DecisionPoint == pc = "loop" /\ idx < T /\ ~is_processing(storage)

\* the window price[i .. i + min(windowSize, T - i) - 1] at i = idx
Window == SubSeq(price_array, idx + 1, idx + Min(window_size, T - idx))

\* the step just taken called start_charging(price[idx], idx) and appended a charge
\* transaction with index idx, price price[idx] and cost = amount * price + amount * fee
ChargeStartedHere ==
    /\ call'.op = "start_charging"
    /\ call'.price = PriceAt(idx) /\ call'.time_index = idx
    /\ TransactionAppended
    /\ LET tx == Last(storage'.transactions)
       IN  /\ tx.type = "charge" /\ tx.index = idx /\ tx.price = PriceAt(idx)
           /\ tx.cost = tx.amount * PriceAt(idx) * One + tx.amount * storage.fee_per_mwh * One

\* the step just taken called start_discharging(price[idx], idx)
DischargeStartedHere ==
    /\ call'.op = "start_discharging"
    /\ call'.price = PriceAt(idx) /\ call'.time_index = idx

C5_DischargeStartsIff ==
    [][DecisionPoint /\ call'.op # "start_charging" =>
         /\ DischargeStartedHere <=>
              /\ 10 * storage.energy_level > storage.capacity
              /\ One * PriceAt(idx) > Percentile(Window, 80)
              /\ 10 * SumSeq(Window) < 9 * PriceAt(idx) * Len(Window)
              /\ (100 * PriceAt(idx) > 105 * last_discharge_price \/ last_discharge_price = 0)
              /\ 10 * DischargeTargetAmount(storage, PriceAt(idx), Window)
                   >= storage.capacity * TargetScale
         /\ ~DischargeStartedHere => call' = NoCall /\ storage' = storage]_vars

\* C5 witness: a discharge was started and moved energy out of the storage.
C5_Witness ==
    /\ pc = "loop"
    /\ call.op = "start_discharging" /\ call.ret
    /\ call.time_index = idx - 1
    /\ storage.is_discharging

\* C6: the loop can always take its next step (the return at idx = T, a step of the loop
\* body before), every step advances idx by one and records
\* one history entry, and the loop ends exactly at idx = T: threshold_lookahead returns
\* after T iterations with T history entries, the k-th with time_index k; the call and the
\* return leave the storage alone, and for T = 0 nothing happens in between.
C6_OneEntryPerIndex ==
    /\ [](pc = "loop" => /\ idx <= T
                         /\ Len(energy_history) = idx
                         /\ \A k \in 1..Len(energy_history) : energy_history[k].time_index = k - 1
                         /\ IF idx = T THEN ENABLED EngineReturn
                            ELSE IF is_processing(storage)
                            THEN \/ ENABLED ChargeContinued
                                 \/ ENABLED DischargeContinued
                                 \/ ENABLED ChargeCompleted
                                 \/ ENABLED DischargeCompleted
                                 \/ ENABLED ContinuedWithoutTarget
                            ELSE \/ ENABLED Hold
                                 \/ ENABLED ChargeStarted
                                 \/ ENABLED DischargeStarted)
    /\ [](pc = "caller" /\ runs >= 1 => /\ Len(energy_history) = T
                                        /\ \A k \in 1..T : energy_history[k].time_index = k - 1)
    /\ [][pc = "loop" /\ pc' = "loop" =>
            idx' = idx + 1 /\ Len(energy_history') = Len(energy_history) + 1]_vars
    /\ [][pc = "loop" /\ pc' = "caller" => idx = T /\ storage' = storage]_vars
    /\ [][pc = "caller" /\ pc' = "loop" => storage' = storage /\ energy_history' = <<>>]_vars
    /\ [][pc = "loop" /\ T = 0 => pc' = "caller"]_vars

\* C6 witness: a run over MaxT prices returned, with operations in its history.
C6_Witness ==
    /\ pc = "caller" /\ runs >= 1
    /\ T = MaxT
    /\ Len(energy_history) = T
    /\ \E k \in 1..T : energy_history[k].action # 0

\* C9: a transaction appended by a start call has step index 0 and the price passed to the
\* call, which is the market price at the start index; a transaction appended by a later
\* step has the price of the transaction before it, which belongs to the same operation,
\* whatever the market price at the step's own index.
C9_OnePricePerOperation ==
    [][TransactionAppended =>
         LET tx == Last(storage'.transactions)
         IN  IF StartCallTaken
             THEN /\ tx.interval = 0 /\ tx.index = idx
                  /\ tx.price = call'.price /\ tx.price = PriceAt(idx)
             ELSE /\ storage.transactions # <<>>
                  /\ tx.type = Last(storage.transactions).type
                  /\ tx.interval = Last(storage.transactions).interval + 1
                  /\ tx.price = Last(storage.transactions).price]_vars

\* C9 witness: a later step of an operation ran at an index whose market price differs
\* from the operation's price.
C9_Witness ==
    /\ pc = "loop" /\ idx >= 1
    /\ call.op = "continue_process" /\ call.ret
    /\ Last(storage.transactions).interval >= 1
    /\ Last(storage.transactions).price # PriceAt(idx - 1)

----------------------------------------------------------------------------
(* Properties of the storage: reset and empty steps *)

\* the fields reset_daily_transactions assigns
ResetFields == {"transactions", "is_charging", "is_discharging", "daily_cycles"}

\* C11: reset_daily_transactions, called in any reachable state, also while an operation is
\* in progress, leaves the log empty, daily_cycles = 0 and the mode Idle and changes no other
\* field (total_cycles, cash, energy_level and every lifetime accumulator among them); a
\* second call right after it changes nothing.
C11_ResetKeepsLifetimeTotals ==
    /\ [][call'.op = "reset_daily_transactions" =>
            /\ storage'.transactions = <<>>
            /\ storage'.daily_cycles = 0
            /\ ~storage'.is_charging /\ ~storage'.is_discharging
            /\ \A f \in (DOMAIN storage) \ ResetFields : storage'[f] = storage[f]]_vars
    /\ [][call.op = "reset_daily_transactions" /\ call'.op = "reset_daily_transactions" =>
            storage' = storage]_vars

\* C11 witness: a reset found a discharge in progress, with a log, cash and cycles to keep.
C11_Witness ==
    /\ call.op = "reset_daily_transactions"
    /\ call.mode = "discharging"
    /\ storage.total_cycles > 0 /\ storage.cash # 0 /\ storage.energy_level > 0
    /\ storage.total_charged_energy > 0 /\ storage.total_discharge_revenue # 0

\* the amount of the step continue_process would take is <= 0
StepAmountNotPositive ==
    \/ storage.is_charging
         /\ Min(MaxStep(storage), storage.capacity - storage.energy_level) <= 0
    \/ ~storage.is_charging /\ storage.is_discharging
         /\ Min(MaxStep(storage), storage.energy_level) <= 0

\* C12: a continue_process step whose amount is <= 0 (charging at capacity, discharging at
\* energy_level = 0) returns false, leaves the mode Idle, appends no transaction and changes
\* neither energy_level nor cash nor any total or cycle counter: the step counter is the only
\* other field that changes.
C12_EmptyStepOnlyLeavesMode ==
    [][call'.op = "continue_process" /\ StepAmountNotPositive =>
         /\ ~call'.ret
         /\ ~is_processing(storage')
         /\ storage'.transactions = storage.transactions
         /\ storage' = [storage EXCEPT !.is_charging = FALSE,
                                       !.is_discharging = FALSE,
                                       !.current_interval = @ + 1]]_vars

\* C12 witness: continue_process found the storage discharging at energy_level = 0.
C12_Witness ==
    /\ call.op = "continue_process" /\ ~call.ret
    /\ call.mode = "discharging"
    /\ storage.max_power > 0
    /\ storage.energy_level = 0
    /\ storage.transactions # <<>>
    /\ ~is_processing(storage)

----------------------------------------------------------------------------
(* Properties of the engine: the order of operations *)

\* C13: in an engine run the mode never goes from charging to discharging or back in one
\* step, every start call finds the mode Idle, succeeds and is made at an index whose
\* history entry has action 0,
\* and no history entry of a charge is directly followed by one of a discharge or the
\* reverse: there is an idle entry between the last step of an operation and the next start.
C13_IdleBetweenOperations ==
    /\ [][/\ ~(Mode(storage) = "charging" /\ Mode(storage') = "discharging")
          /\ ~(Mode(storage) = "discharging" /\ Mode(storage') = "charging")]_vars
    /\ [][pc = "loop" /\ StartCallTaken =>
            /\ call'.mode = "idle" /\ call'.ret
            /\ Last(energy_history').time_index = call'.time_index
            /\ Last(energy_history').action = 0]_vars
    /\ [](\A k \in 1..(Len(energy_history) - 1) :
            energy_history[k].action * energy_history[k + 1].action # -1)

\* C13 witness: a discharge was started in a run whose history holds a charge and the idle
\* entry after it.
C13_Witness ==
    /\ pc = "loop"
    /\ call.op = "start_discharging" /\ call.ret
    /\ \E k \in 1..(Len(energy_history) - 1) :
         energy_history[k].action = 1 /\ energy_history[k + 1].action = 0
    /\ Last(energy_history).action = 0

----------------------------------------------------------------------------
(* Properties of create_trading_summary *)

\* entry k of history begins a maximal run of identical nonzero action
RunStart(history, k) ==
    /\ history[k].action # 0
    /\ k = 1 \/ history[k - 1].action # history[k].action

\* the last entry of the maximal run that begins at entry k
RunEnd(history, k) ==
    CHOOSE m \in k..Len(history) :
        /\ \A j \in k..m : history[j].action = history[k].action
        /\ m = Len(history) \/ history[m + 1].action # history[k].action

RunStarts(history) == {k \in 1..Len(history) : RunStart(history, k)}

\* the entry at which the n-th maximal run of history begins
NthRunStart(history, n) ==
    CHOOSE k \in RunStarts(history) :
        Cardinality({j \in RunStarts(history) : j < k}) = n - 1

\* C14 as stated: create_trading_summary returns exactly one Trade per maximal contiguous
\* run of identical nonzero action, with the run's type, first index, last index and
\* length; a charge run directly followed by a discharge run yields two trades.
C14_OneTradePerRun ==
    pc = "returned" =>
        /\ Len(trades) = Cardinality(RunStarts(energy_history))
        /\ \A n \in 1..Len(trades) :
             LET k == NthRunStart(energy_history, n)
                 m == RunEnd(energy_history, k)
             IN  /\ trades[n].type =
                      (IF energy_history[k].action = 1 THEN "charge" ELSE "discharge")
                 /\ trades[n].start_index = energy_history[k].time_index
                 /\ trades[n].end_index = energy_history[m].time_index
                 /\ trades[n].intervals = m - k + 1

\* history is idle entries, then entries a..b with one nonzero action, then idle entries
SingleRun(history, a, b) ==
    /\ history[a].action # 0
    /\ \A k \in 1..Len(history) :
         history[k].action = (IF a <= k /\ k <= b THEN history[a].action ELSE 0)

\* C15: for a history that is idle entries, one run of k >= 1 entries with the same nonzero
\* action, then idle entries or the end, create_trading_summary returns exactly one Trade
\* with intervals = k, the run's first and last index and energy_traded = |energy at the
\* run's last entry - energy at its first entry|; for an empty or all-idle history it
\* returns the empty list.
C15_SingleRunOneTrade ==
    pc = "returned" =>
        /\ (\A k \in 1..Len(energy_history) : energy_history[k].action = 0) => trades = <<>>
        /\ \A a \in 1..Len(energy_history) : \A b \in a..Len(energy_history) :
             SingleRun(energy_history, a, b) =>
                /\ Len(trades) = 1
                /\ trades[1].type =
                     (IF energy_history[a].action = 1 THEN "charge" ELSE "discharge")
                /\ trades[1].intervals = b - a + 1
                /\ trades[1].start_index = energy_history[a].time_index
                /\ trades[1].end_index = energy_history[b].time_index
                /\ trades[1].energy_traded * trades[1].energy_traded =
                     (energy_history[b].energy_level - energy_history[a].energy_level)
                       * (energy_history[b].energy_level - energy_history[a].energy_level)
                /\ trades[1].energy_traded >= 0

\* C15 witness: the summary of idle, three discharge entries from level 8 to level 3, idle
\* returned one trade.
C15_Witness ==
    /\ pc = "returned"
    /\ Len(energy_history) = 5
    /\ SingleRun(energy_history, 2, 4)
    /\ energy_history[2].action = -1
    /\ energy_history[2].energy_level = 8 /\ energy_history[4].energy_level = 3
    /\ Len(trades) = 1 /\ trades[1].intervals = 3 /\ trades[1].energy_traded = 5

----------------------------------------------------------------------------
(* Properties of the engine: constant prices *)

\* every price of the series is the same
ConstantSeries(prices) == \A j \in DOMAIN prices : \A k \in DOMAIN prices : prices[j] = prices[k]

\* C16: in a run over a constant price series that the engine enters with an Idle storage
\* (the first history entry has action 0) every iteration is a hold: no storage call, the
\* storage unchanged (energy level and transaction log among its fields), and every history
\* entry has action 0 and the initial energy level.
C16_ConstantPricesNoTrade ==
    /\ [][pc = "loop" /\ pc' = "loop" /\ ConstantSeries(price_array) /\ ~is_processing(storage) =>
            /\ call' = NoCall
            /\ storage' = storage]_vars
    /\ [](pc \in {"loop", "caller"} /\ ConstantSeries(price_array)
            /\ energy_history # <<>> /\ energy_history[1].action = 0 =>
               /\ ~is_processing(storage)
               /\ storage.energy_level = energy_history[1].energy_level
               /\ \A k \in 1..Len(energy_history) :
                    /\ energy_history[k].action = 0
                    /\ energy_history[k].energy_level = energy_history[1].energy_level)

\* C16 witness: a run over three equal negative prices returned, entered with an Idle
\* storage that held energy.
C16_Witness ==
    /\ pc = "caller" /\ runs = 2
    /\ Len(price_array) = 3 /\ ConstantSeries(price_array) /\ price_array[1] < 0
    /\ Len(energy_history) = 3
    /\ energy_history[1].action = 0
    /\ storage.energy_level > 0
    /\ storage.transactions = <<>>

----------------------------------------------------------------------------
(* Properties of the storage: the cumulative statistics *)

\* the cumulative energy figures and the cycle counter
EnergyTotals == {"total_charged_energy", "total_discharged_energy", "total_gross_energy",
                 "energy_losses", "total_cycles"}

\* the cumulative money figures
MoneyTotals == {"total_charge_cost", "total_discharge_revenue", "gross_energy_revenue",
                "efficiency_losses"}

\* C17 as stated: for every storage operation and every price, negative ones included, none
\* of the cumulative statistics ever decreases.
C17_TotalsNeverDecrease ==
    [][\A f \in EnergyTotals \cup MoneyTotals : storage'[f] >= storage[f]]_vars

\* C17 amended: the energy totals and total_cycles never decrease; a money total decreases
\* exactly in a step at a price that makes its increment negative: total_charge_cost in a
\* charge step with price + fee < 0, total_discharge_revenue in a discharge step with
\* price < fee, gross_energy_revenue in a discharge step with price < 0, efficiency_losses
\* in a discharge step with price < 0 and efficiency < 1; no operation resets any of them.
C17_EnergyTotalsNeverDecrease ==
    /\ [][\A f \in EnergyTotals : storage'[f] >= storage[f]]_vars
    /\ [][storage'.total_charge_cost < storage.total_charge_cost <=>
            /\ ChargeStepTaken
            /\ Last(storage'.transactions).price + storage.fee_per_mwh < 0]_vars
    /\ [][storage'.total_discharge_revenue < storage.total_discharge_revenue <=>
            /\ DischargeStepTaken
            /\ Last(storage'.transactions).price < storage.fee_per_mwh]_vars
    /\ [][storage'.gross_energy_revenue < storage.gross_energy_revenue <=>
            /\ DischargeStepTaken
            /\ Last(storage'.transactions).price < 0]_vars
    /\ [][storage'.efficiency_losses < storage.efficiency_losses <=>
            /\ DischargeStepTaken
            /\ Last(storage'.transactions).price < 0
            /\ storage.efficiency < One]_vars

\* C17 witness: after a charge and a discharge at a negative price the cost, the revenue
\* and the efficiency losses are negative and the energy totals positive.
C17_Witness ==
    /\ storage.total_charge_cost < 0
    /\ storage.total_discharge_revenue < 0
    /\ storage.efficiency_losses < 0
    /\ storage.total_charged_energy > 0
    /\ storage.total_discharged_energy > 0

----------------------------------------------------------------------------
(* Properties of the engine: an operation in progress *)

\* the engine enters index idx with a charge in progress and a charge target
ChargingToTarget == pc = "loop" /\ idx < T /\ storage.is_charging /\ charge_target # None

\* the engine enters index idx with a discharge in progress and a discharge target (and no
\* charge with a target)
DischargingToTarget ==
    /\ pc = "loop" /\ idx < T
    /\ ~(storage.is_charging /\ charge_target # None)
    /\ storage.is_discharging /\ discharge_target # None

\* energy_level >= target - 0.1 MWh, the target counting 1/(EnergyScale*TargetScale) MWh
WithinToleranceAbove(target) ==
    10 * TargetScale * storage.energy_level + EnergyScale * TargetScale >= 10 * target

\* energy_level <= target + 0.1 MWh
WithinToleranceBelow(target) ==
    10 * TargetScale * storage.energy_level <= 10 * target + EnergyScale * TargetScale

\* the step just taken stopped the operation without a storage call or a trade decision
StoppedHere ==
    /\ call' = NoCall
    /\ storage' = [storage EXCEPT !.is_charging = FALSE, !.is_discharging = FALSE]
    /\ current_price' = current_price
    /\ current_operation_price' = None

\* the step just taken made exactly one continue_process call, at index idx
ContinuedHere ==
    /\ call'.op = "continue_process" /\ call'.time_index = idx
    /\ storage'.current_interval = storage.current_interval + 1
    /\ Len(storage'.transactions) <= Len(storage.transactions) + 1
    /\ call'.ret => /\ TransactionAppended
                    /\ Last(storage'.transactions).index = idx
    /\ current_price' = current_price
    /\ charge_target' = charge_target /\ discharge_target' = discharge_target

\* C18: at an index entered with an operation in progress and a target, the engine stops
\* the operation if the target is reached within the tolerance of 0.1 MWh (mode Idle,
\* target cleared, no storage call, no transaction, energy unchanged, no trade decision) and
\* makes exactly one continue_process call otherwise; either way idx advances by one.
C18_StopOrContinue ==
    /\ [][ChargingToTarget =>
            /\ idx' = idx + 1
            /\ IF WithinToleranceAbove(Val(charge_target))
               THEN StoppedHere /\ charge_target' = None /\ discharge_target' = discharge_target
               ELSE ContinuedHere]_vars
    /\ [][DischargingToTarget =>
            /\ idx' = idx + 1
            /\ IF WithinToleranceBelow(Val(discharge_target))
               THEN StoppedHere /\ discharge_target' = None /\ charge_target' = charge_target
               ELSE ContinuedHere]_vars

\* C18 witness: a charge was stopped at its target with the battery not full: 0.75 MWh of
\* 1 MWh after two steps.
C18_Witness ==
    /\ pc = "loop" /\ idx >= 2
    /\ Last(energy_history).action = 1
    /\ call = NoCall /\ ~is_processing(storage)
    /\ charge_target = None
    /\ storage.transactions # <<>>
    /\ Last(storage.transactions).type = "charge"
    /\ Last(storage.transactions).interval = 1
    /\ 4 * storage.energy_level = 3 * storage.capacity

\* C19 as stated: when the engine detects at index t that a discharge has reached its target,
\* lastDischargePrice becomes the market price at index t and lastChargePrice +infinity.
C19_RecordsPriceAtCompletion ==
    [][DischargingToTarget /\ WithinToleranceBelow(Val(discharge_target)) =>
         /\ last_discharge_price' = PriceAt(idx)
         /\ last_charge_price' = Inf]_vars

\* C19 amended: when the engine detects at index t that a discharge has reached its target,
\* lastDischargePrice becomes current_price, which still is the market price at the index at
\* which the discharge was started (the price of the operation, the value lastDischargePrice
\* has had since the start), and lastChargePrice becomes +infinity.
C19_RecordsPriceOfOperation ==
    [][DischargingToTarget /\ WithinToleranceBelow(Val(discharge_target)) =>
         /\ current_price # Unbound
         /\ last_discharge_price' = Val(current_price)
         /\ last_discharge_price' = PriceAt(storage.charging_start_index)
         /\ last_discharge_price' = storage.discharging_price
         /\ last_discharge_price' = last_discharge_price
         /\ storage.charging_start_index < idx
         /\ last_charge_price' = Inf]_vars

\* C19 witness: a discharge completion was detected at an index whose market price differs
\* from the price of the operation.
C19_Witness ==
    /\ pc = "loop" /\ idx >= 2
    /\ Last(energy_history).action = -1
    /\ call = NoCall /\ ~is_processing(storage)
    /\ discharge_target = None
    /\ last_discharge_price # 0
    /\ last_discharge_price # PriceAt(idx - 1)
    /\ last_charge_price = Inf

----------------------------------------------------------------------------
(* Properties of the engine and create_trading_summary together *)

\* the positions in log of the first transactions of its operations
OperationStarts(log) == {k \in 1..Len(log) : log[k].interval = 0}

\* the position in log of the first transaction of its n-th operation
NthOperation(log, n) ==
    CHOOSE k \in OperationStarts(log) :
        Cardinality({j \in OperationStarts(log) : j < k}) = n - 1

\* the position in log of the last transaction of the operation that begins at position k
OperationEnd(log, k) ==
    CHOOSE m \in k..Len(log) :
        /\ \A j \in (k + 1)..m : log[j].interval # 0
        /\ m = Len(log) \/ log[m + 1].interval = 0

\* the gross energy a transaction moved
Moved(tx) == IF tx.type = "charge" THEN tx.amount ELSE tx.amount_gross

RECURSIVE MovedBetween(_, _, _)
\* the gross energy the transactions at positions k..m of log moved
MovedBetween(log, k, m) ==
    IF k > m THEN 0 ELSE Moved(log[k]) + MovedBetween(log, k + 1, m)

\* the n-th operation of the log was completed before the run returned
CompletedOperation(log, n) ==
    n < Cardinality(OperationStarts(log)) \/ ~is_processing(storage)

\* C20 as stated: after the first run on a new storage, for every operation that completed
\* before the series ended, the Trade create_trading_summary derives for it from the energy
\* history has start_index = time index of the operation's first transaction and
\* energy_traded = total gross energy the operation's transactions moved.
C20_TradesMatchOperations ==
    pc = "caller" /\ runs = 1 =>
        LET log == storage.transactions
            summary == create_trading_summary(energy_history)
        IN  \A n \in 1..Cardinality(OperationStarts(log)) :
                CompletedOperation(log, n) =>
                    LET k == NthOperation(log, n)
                    IN  /\ n <= Len(summary)
                        /\ summary[n].start_index = log[k].index
                        /\ summary[n].energy_traded = MovedBetween(log, k, OperationEnd(log, k))

----------------------------------------------------------------------------
(* Properties of the engine: the state in which threshold_lookahead returns *)

\* the step in which threshold_lookahead returns
Returns == pc = "loop" /\ pc' = "caller"

\* the storage call of the last loop iteration moved energy
MovedEnergy(c) ==
    c.op \in {"start_charging", "start_discharging", "continue_process"} /\ c.ret

----------------------------------------------------------------------------
(* Properties of the engine: the last charge price and the last discharge price *)

\* a loop iteration
LoopStep == pc = "loop" /\ idx < T /\ idx' = idx + 1

\* the iteration detected that the discharge in progress has reached its target
DischargeCompletedHere ==
    /\ storage.is_discharging /\ ~storage'.is_discharging
    /\ call' = NoCall

\* the iteration detected that the charge in progress has reached its target
ChargeCompletedHere ==
    /\ storage.is_charging /\ ~storage'.is_charging
    /\ call' = NoCall

\* C22: last_charge_price and last_discharge_price change only in an iteration that starts
\* or completes an operation. A charge start sets last_charge_price to price[idx] and
\* last_discharge_price to 0; a discharge start sets last_discharge_price to price[idx] and
\* last_charge_price to +infinity; hold iterations, continue iterations and the completion
\* of a charge leave both unchanged.
C22_HysteresisUpdates ==
    [][LoopStep =>
         /\ call'.op = "start_charging" =>
                last_charge_price' = Num(PriceAt(idx)) /\ last_discharge_price' = 0
         /\ call'.op = "start_discharging" =>
                last_discharge_price' = PriceAt(idx) /\ last_charge_price' = Inf
         /\ call'.op = "continue_process" \/ ChargeCompletedHere
               \/ (call' = NoCall /\ ~is_processing(storage)) =>
                UNCHANGED <<last_charge_price, last_discharge_price>>
         /\ <<last_charge_price, last_discharge_price>>' # <<last_charge_price, last_discharge_price>> =>
                \/ call'.op \in {"start_charging", "start_discharging"}
                \/ DischargeCompletedHere]_vars

\* a discharge was started after a charge of the same run: the last charge price, set by the
\* charge, is +infinity again and the last discharge price is the price of the start index
C22_Witness ==
    /\ pc = "loop" /\ runs = 1
    /\ call.op = "start_discharging" /\ call.ret
    /\ Len(storage.transactions) >= 2
    /\ storage.transactions[1].type = "charge"
    /\ last_charge_price = Inf
    /\ last_discharge_price = call.price
    /\ last_discharge_price # 0

----------------------------------------------------------------------------
(* Properties of the engine: the size of an operation *)

\* C23: a charge started at idx has the target amount 0.8 * (capacity - energy_level) if
\* price[idx] is below the window's 10th percentile and 0.5 * (capacity - energy_level)
\* otherwise, and the target min(energy_level + target amount, capacity); a discharge started
\* at idx has the target amount 0.8 * energy_level if price[idx] is above the window's 90th
\* percentile and 0.5 * energy_level otherwise, and the target
\* max(energy_level - target amount, 0). No operation starts with a target amount below
\* 0.1 * capacity.
C23_TargetSizing ==
    [][DecisionPoint =>
         /\ call'.op = "start_charging" =>
                LET room == storage.capacity - storage.energy_level
                    amount == IF One * PriceAt(idx) < Percentile(Window, 10)
                              THEN 8 * room ELSE 5 * room
                IN  /\ charge_target' = Num(Min(TargetScale * storage.energy_level + amount,
                                                TargetScale * storage.capacity))
                    /\ 10 * amount >= TargetScale * storage.capacity
         /\ call'.op = "start_discharging" =>
                LET amount == IF One * PriceAt(idx) > Percentile(Window, 90)
                              THEN 8 * storage.energy_level ELSE 5 * storage.energy_level
                IN  /\ discharge_target' = Num(Max(TargetScale * storage.energy_level - amount, 0))
                    /\ 10 * amount >= TargetScale * storage.capacity]_vars

\* a discharge has been started with half of the energy as its target amount: the price of
\* the start index is above the 80th and not above the 90th percentile of a window of 7
C23_Witness ==
    /\ call.op = "start_discharging" /\ call.ret
    /\ look_ahead_window = 6
    /\ LET tx == Last(storage.transactions)
           before == tx.energy_level + tx.amount_gross
       IN  /\ before > 0
           /\ discharge_target = Num(TargetScale * before - 5 * before)

----------------------------------------------------------------------------
(* Properties of the engine: storage calls that return false *)

\* C24 as stated: the engine clears its target tracking when a storage call returns false and
\* leaves the storage idle, so that at the start of every loop iteration at which the
\* storage is idle the engine holds neither a charge target nor a discharge target.
C24_IdleMeansNoTarget ==
    pc = "loop" /\ ~is_processing(storage) =>
        charge_target = None /\ discharge_target = None

----------------------------------------------------------------------------
(* Properties of the engine: the energy history as a snapshot before the action *)

\* the signed gross amount of a transaction: positive for a charge, negative for a discharge
Signed(tx) == IF tx.type = "charge" THEN tx.amount ELSE 0 - tx.amount_gross

RECURSIVE SignedAt(_, _)
\* the signed gross amount of the transactions of log recorded with index t
SignedAt(log, t) ==
    IF log = <<>> THEN 0
    ELSE (IF Head(log).index = t THEN Signed(Head(log)) ELSE 0) + SignedAt(Tail(log), t)

----------------------------------------------------------------------------
(* Properties of the engine: the storage calls of a run that started with an idle storage *)

\* the storage was idle when the run began: at index 0 it is the storage as handed over, and
\* later the first history entry tells the mode found at index 0
RunStartedIdle ==
    IF idx = 0 THEN ~is_processing(storage) ELSE energy_history[1].action = 0

\* C26: in a run started with an idle storage of capacity > 0 and C-rate > 0, every
\* start_charging, start_discharging and continue_process call of the engine returns true
\* and appends exactly one transaction; no step computes an amount <= 0.
C26_EngineCallsSucceed ==
    [][LoopStep /\ RunStartedIdle /\ storage.capacity > 0 /\ storage.charge_rate > 0
         /\ call'.op \in {"start_charging", "start_discharging", "continue_process"} =>
            /\ call'.ret
            /\ TransactionAppended
            /\ Moved(Last(storage'.transactions)) > 0
            /\ ~(is_processing(storage) /\ StepAmountNotPositive)]_vars

\* in a first run a discharge has been continued by a step that moved energy
C26_Witness ==
    /\ runs = 1 /\ pc = "loop"
    /\ call.op = "continue_process" /\ call.mode = "discharging" /\ call.ret
    /\ Last(storage.transactions).type = "discharge"
    /\ Last(storage.transactions).interval = 1

----------------------------------------------------------------------------
(* Properties of the engine: the energy level and the target of an operation *)

\* the iteration stops the charge in progress
ChargeStoppedHere == ChargingToTarget /\ ~storage'.is_charging /\ call' = NoCall

\* the iteration stops the discharge in progress
DischargeStoppedHere == DischargingToTarget /\ ~storage'.is_discharging /\ call' = NoCall

\* the energy level before the last transaction of the log
LevelBeforeLast ==
    LET tx == Last(storage.transactions)
    IN  IF tx.type = "charge" THEN tx.energy_level - tx.amount
        ELSE tx.energy_level + tx.amount_gross

\* C27 as stated: during a charge operation the energy level never exceeds the charge target,
\* during a discharge operation it never falls below the discharge target, and when the
\* operation is stopped the level lies within 0.1 MWh of the target on the inner side.
C27_NeverPastTarget ==
    /\ [](ChargingToTarget =>
            10 * TargetScale * storage.energy_level <= 10 * Val(charge_target))
    /\ [](DischargingToTarget =>
            10 * TargetScale * storage.energy_level >= 10 * Val(discharge_target))
    /\ [][ChargeStoppedHere =>
            /\ WithinToleranceAbove(Val(charge_target))
            /\ 10 * TargetScale * storage.energy_level <= 10 * Val(charge_target)]_vars
    /\ [][DischargeStoppedHere =>
            /\ WithinToleranceBelow(Val(discharge_target))
            /\ 10 * TargetScale * storage.energy_level >= 10 * Val(discharge_target)]_vars

\* C27, amended: a step is clipped to the capacity or to the energy left, never to the target,
\* so the level can pass the target by less than one step. When a charge is stopped,
\* target - 0.1 <= energy_level <= capacity, and if the operation had more than one step the
\* level before its last step was below target - 0.1; when a discharge is stopped,
\* 0 <= energy_level <= target + 0.1, and if the operation had more than one step the level
\* before its last step was above target + 0.1.
C27_PastTargetByLessThanOneStep ==
    /\ [][ChargeStoppedHere =>
            /\ WithinToleranceAbove(Val(charge_target))
            /\ storage.energy_level <= storage.capacity
            /\ Last(storage.transactions).interval >= 1 =>
                  10 * TargetScale * LevelBeforeLast
                     < 10 * Val(charge_target) - EnergyScale * TargetScale]_vars
    /\ [][DischargeStoppedHere =>
            /\ WithinToleranceBelow(Val(discharge_target))
            /\ storage.energy_level >= 0
            /\ Last(storage.transactions).interval >= 1 =>
                  10 * TargetScale * LevelBeforeLast
                     > 10 * Val(discharge_target) + EnergyScale * TargetScale]_vars

\* a charge of a 4C storage is about to be stopped: its one step has filled the storage, past
\* the target of 0.8 MWh
C27_Witness ==
    /\ ChargingToTarget
    /\ Last(storage.transactions).interval = 0
    /\ storage.energy_level = storage.capacity
    /\ 10 * TargetScale * storage.energy_level > 10 * Val(charge_target)

----------------------------------------------------------------------------
(* Properties of the engine: the price of an operation that follows one of its kind *)

\* C28 as stated: in a run, a charge that follows a charge with no discharge started in
\* between starts at a price strictly lower than the earlier charge's price, at least 5 %
\* lower; a discharge that follows a discharge with no charge started in between starts at a
\* price strictly higher than the earlier discharge's price. Negative and zero prices included.
C28_BetterThanLastOfItsKind ==
    [][LoopStep /\ runs = 1 /\ storage.transactions # <<>> =>
         LET earlier == Last(storage.transactions)
         IN  /\ call'.op = "start_charging" /\ earlier.type = "charge" =>
                   /\ PriceAt(idx) < earlier.price
                   /\ 100 * PriceAt(idx) <= 100 * earlier.price - 5 * Abs(earlier.price)
             /\ call'.op = "start_discharging" /\ earlier.type = "discharge" =>
                   PriceAt(idx) > earlier.price]_vars

----------------------------------------------------------------------------
(* Properties of the engine: windows of at most 6 prices *)

\* C29: with a look-ahead window of at most 6 prices (the default size 6 and the windows
\* shortened by the end of the series included), a charge is only started at a price below
\* the window's 10th percentile and a discharge only at a price above its 90th percentile,
\* so the target amount is always the 0.8 fraction.
C29_AlwaysLargeFraction ==
    [][DecisionPoint /\ Len(Window) <= 6 =>
         /\ call'.op = "start_charging" =>
               /\ One * PriceAt(idx) < Percentile(Window, 10)
               /\ charge_target' =
                     Num(Min(TargetScale * storage.energy_level
                               + 8 * (storage.capacity - storage.energy_level),
                             TargetScale * storage.capacity))
         /\ call'.op = "start_discharging" =>
               /\ One * PriceAt(idx) > Percentile(Window, 90)
               /\ discharge_target' =
                     Num(Max(TargetScale * storage.energy_level - 8 * storage.energy_level, 0))]_vars

\* a charge has been started at index 0 of a series of 7 prices with the window size 6, with
\* 0.8 of the room as its target amount
C29_Witness ==
    /\ call.op = "start_charging" /\ call.ret /\ call.time_index = 0
    /\ window_size = 6 /\ T = 7
    /\ storage.energy_level < storage.capacity
    /\ charge_target = Num(TargetScale * LevelBeforeLast + 8 * (storage.capacity - LevelBeforeLast))

----------------------------------------------------------------------------
(* Properties of the engine: the order of the transaction log *)

\* the step extends the log at its end or leaves it as it is
LogExtended ==
    /\ Len(storage'.transactions) >= Len(storage.transactions)
    /\ SubSeq(storage'.transactions, 1, Len(storage.transactions)) = storage.transactions

\* every iteration appends at most one transaction, with the time index idx of the iteration;
\* idx grows by one per iteration, so the indices appended in a run are strictly increasing
OnePerIndex ==
    [][LoopStep =>
         /\ LogExtended
         /\ Len(storage'.transactions) <= Len(storage.transactions) + 1
         /\ TransactionAppended => Last(storage'.transactions).index = idx]_vars

\* C30 as stated: the log is append-only and ordered. In an engine run at most one transaction
\* is appended per time index and the time indices are strictly increasing in log order;
\* within one operation the k-th transaction (k = 0, 1, 2, ...) has interval k and time
\* index start + k.
C30_LogOrdered ==
    /\ OnePerIndex
    /\ [](\A k \in OperationStarts(storage.transactions) :
             \A j \in k..OperationEnd(storage.transactions, k) :
                /\ storage.transactions[j].interval = j - k
                /\ storage.transactions[j].index = storage.transactions[k].index + (j - k))

\* C30, amended: as stated for the transactions of one run. The k-th transaction of an
\* operation has interval k; it has the time index start + k when the operation runs within
\* one threshold_lookahead call, while a step that continues, at index 0 of a run, an
\* operation handed over in progress is recorded with index 0. Storage calls only extend the
\* log; reset_daily_transactions empties it.
C30_LogOrderedWithinRun ==
    /\ OnePerIndex
    /\ [][pc = "caller" /\ pc' = "caller" /\ storage' # storage => storage'.transactions = <<>>]_vars
    /\ [](\A k \in OperationStarts(storage.transactions) :
             \A j \in k..OperationEnd(storage.transactions, k) :
                storage.transactions[j].interval = j - k)
    /\ [][LoopStep /\ TransactionAppended =>
            LET tx == Last(storage'.transactions)
            IN  /\ call'.op \in {"start_charging", "start_discharging"} => tx.interval = 0
                /\ call'.op = "continue_process" =>
                      /\ tx.interval = Last(storage.transactions).interval + 1
                      /\ tx.type = Last(storage.transactions).type
                      /\ idx > 0 => tx.index = Last(storage.transactions).index + 1]_vars

\* a second run has continued, at its index 0, the charge that the first run left in progress
\* after two steps
C30_Witness ==
    /\ runs = 2
    /\ call.op = "continue_process" /\ call.ret /\ call.time_index = 0
    /\ Len(storage.transactions) = 3
    /\ Last(storage.transactions).interval = 2
    /\ Last(storage.transactions).index = 0
    /\ storage.transactions[1].interval = 0 /\ storage.transactions[1].index = 0

----------------------------------------------------------------------------
(* Properties of the storage: balances *)

\* C31: in every state reachable from a new storage, energy_level = total_charged_energy
\* - total_gross_energy, hence total_gross_energy <= total_charged_energy.
C31_EnergyConserved ==
    /\ storage.energy_level = storage.total_charged_energy - storage.total_gross_energy
    /\ storage.total_gross_energy <= storage.total_charged_energy

\* reset_daily_transactions has been called on a storage that holds energy and has charged
\* and discharged
C31_Witness ==
    /\ call.op = "reset_daily_transactions"
    /\ storage.energy_level > 0
    /\ storage.total_gross_energy > 0
    /\ storage.total_charged_energy > storage.total_gross_energy

\* C32: in every state reachable from a new storage, cash = total_discharge_revenue
\* - total_charge_cost, which is get_total_profit() and total_profit, also after
\* reset_daily_transactions.
C32_CashIsProfit ==
    /\ storage.cash = storage.total_discharge_revenue - storage.total_charge_cost
    /\ storage.cash = get_total_profit(storage)
    /\ storage.cash = total_profit(storage)

\* reset_daily_transactions has been called on a storage that has paid for a charge and
\* earned, with efficiency and fee losses, from a discharge
C32_Witness ==
    /\ call.op = "reset_daily_transactions"
    /\ storage.total_charge_cost # 0
    /\ storage.total_discharge_revenue # 0
    /\ storage.total_discharge_revenue # storage.gross_energy_revenue
    /\ storage.cash # 0

----------------------------------------------------------------------------
(* Properties of the engine and create_trading_summary: one trade per operation *)

\* C33: for the energy history of a run started with an idle storage, create_trading_summary
\* returns one Trade per operation the engine started (per transaction with interval 0), in
\* the same order and with the same type, an operation still in progress at the end of the
\* series included; no operation starts at the last index of the series.
C33_OneTradePerOperation ==
    pc = "caller" /\ runs = 1 /\ call.op # "reset_daily_transactions" =>
        LET log == storage.transactions
            summary == create_trading_summary(energy_history)
            n == Cardinality(OperationStarts(log))
        IN  /\ Len(summary) = n
            /\ \A i \in 1..n : summary[i].type = log[NthOperation(log, i)].type
            /\ \A k \in OperationStarts(log) : log[k].index < T - 1

\* a run has returned after a completed discharge and with a charge still in progress; the
\* summary holds a discharge trade and a charge trade
C33_Witness ==
    /\ pc = "caller" /\ runs = 1
    /\ storage.is_charging
    /\ Cardinality(OperationStarts(storage.transactions)) = 2
    /\ storage.transactions[1].type = "discharge"
    /\ LET summary == create_trading_summary(energy_history)
       IN  /\ Len(summary) = 2
           /\ summary[1].type = "discharge"
           /\ summary[2].type = "charge"
           /\ summary[2].end_index = T - 1

----------------------------------------------------------------------------
(* Properties of the engine: charge evaluation before discharge evaluation *)

\* C34: at no index do the charge test and the discharge test both hold: a price below the
\* window's 20th percentile is not above its 80th percentile. So a discharge whose test and
\* guards hold is started although the charge is evaluated first, and an iteration starts at
\* most one operation.
C34_TriggersExclusive ==
    [][DecisionPoint /\ Len(Window) >= 1 =>
         /\ ~(/\ One * PriceAt(idx) < Percentile(Window, 20)
              /\ One * PriceAt(idx) > Percentile(Window, 80))
         /\ ~(/\ ChargeSignal(PriceAt(idx), Window, last_charge_price)
              /\ DischargeSignal(PriceAt(idx), Window, last_discharge_price))
         /\ DischargeStarts => call'.op = "start_discharging"
         /\ Len(storage'.transactions) <= Len(storage.transactions) + 1
         /\ ~(storage'.is_charging /\ storage'.is_discharging)]_vars

\* a discharge has been started at an index whose price is above the 80th percentile, from
\* a storage that a charge of the same run has filled
C34_Witness ==
    /\ pc = "loop" /\ runs = 1
    /\ call.op = "start_discharging" /\ call.ret
    /\ storage.transactions[1].type = "charge"
    /\ Last(storage.transactions).type = "discharge"
    /\ Last(storage.transactions).index = idx - 1

----------------------------------------------------------------------------
(* Properties of the storage: continue_process called again and again *)

\* ceil(capacity / (max_power * 0.25))
MostSteps(s) == (s.capacity + MaxStep(s) - 1) \div MaxStep(s)

\* continue_process has returned false and the storage is idle
Exhausted == call.op = "continue_process" /\ ~call.ret /\ ~is_processing(storage)

\* C35: continue_process called again and again on a storage with capacity > 0 and C-rate > 0
\* in Charging (Discharging) mode eventually returns false and leaves the storage idle,
\* after at most ceil(capacity / (max_power * 0.25)) successful steps. A step that fills
\* (empties) the storage leaves the mode as it is; the call that finds the storage full
\* (empty) fails. Once idle, every further call returns false and changes neither the log
\* nor energy_level nor cash.
C35_ContinueUntilExhausted ==
    /\ <>Exhausted
    /\ [](is_processing(storage) =>
            Last(storage.transactions).interval + 1 <= MostSteps(storage))
    /\ [][storage.is_charging =>
            /\ call'.ret <=> storage.energy_level < storage.capacity
            /\ call'.ret => storage'.is_charging
            /\ ~call'.ret => ~is_processing(storage') /\ storage'.energy_level = storage.capacity]_vars
    /\ [][storage.is_discharging =>
            /\ call'.ret <=> storage.energy_level > 0
            /\ call'.ret => storage'.is_discharging
            /\ ~call'.ret => ~is_processing(storage') /\ storage'.energy_level = 0]_vars
    /\ [][~is_processing(storage) =>
            /\ ~call'.ret
            /\ ~is_processing(storage')
            /\ storage'.transactions = storage.transactions
            /\ storage'.energy_level = storage.energy_level
            /\ storage'.cash = storage.cash]_vars

\* the third continue_process call on a charging 1.5C storage has found it full and returned
\* false, after the steps 0, 1 and 2 of the operation
C35_Witness ==
    /\ Exhausted /\ call.mode = "charging"
    /\ used = 3
    /\ storage.energy_level = storage.capacity
    /\ Last(storage.transactions).interval = 2
    /\ MostSteps(storage) = 3

----------------------------------------------------------------------------
(* Properties of the storage: the daily cycle counter *)

\* C36: in every reachable state of the storage, daily_cycles is the sum of
\* amount_gross / capacity over the discharge transactions in the log (the log and
\* daily_cycles are cleared together), and daily_cycles <= total_cycles.
C36_DailyCyclesIsLogSum ==
    /\ storage.daily_cycles = CycleSum(storage.transactions, storage.capacity)
    /\ storage.daily_cycles <= storage.total_cycles

\* the log holds charge transactions and two discharge transactions: daily_cycles is
\* the sum of the two discharged fractions
C36_Witness ==
    /\ Len(storage.transactions) = 4
    /\ storage.transactions[1].type = "charge"
    /\ storage.transactions[3].type = "discharge"
    /\ storage.transactions[4].type = "discharge"
    /\ storage.daily_cycles =
         ((storage.transactions[3].amount_gross + storage.transactions[4].amount_gross)
            * CycleScale) \div storage.capacity
    /\ storage.daily_cycles > 0
====
